---------------------------- MODULE Spec2Model ----------------------------
(***************************************************************************)
(* A model of src/vcpkg/vcpkg.py: the generator that crawls vcpkg ports,   *)
(* extracts one Flatpak module per portfile, orders the modules by Kahn's  *)
(* algorithm and writes the manifest.                                      *)
(*                                                                         *)
(* Python values are modelled as follows.                                  *)
(*   str        a TLA+ string, taken apart with Len, SubSeq and \o         *)
(*   None       the model value None                                       *)
(*   list/deque a sequence                                                 *)
(*   set        a set; a loop over a set takes its elements in an order    *)
(*              the model chooses freely (string hashing is randomised     *)
(*              per process, so the order is not fixed by the program)     *)
(*   dict       a record [keys, val]: the keys in insertion order, which   *)
(*              is the order a loop over the dict visits them in, and the  *)
(*              value of each key                                          *)
(***************************************************************************)
EXTENDS Integers, Sequences, FiniteSets, TLC

VARIABLES
    pc,                  \* where the run is
    ports,               \* the ports directory, as far as the run has read it
    start_packages,      \* args.start_packages
    queue,               \* main: the crawl's work queue
    processed_packages,  \* main: the visited set
    all_modules_data,    \* main: name -> module record
    package_deps_map,    \* main: defaultdict(set), dependent -> dependencies
    graph_for_sort,      \* main: defaultdict(set), the inverted graph
    build_pos,           \* main: how many items of package_deps_map are inverted
    graph,               \* topological_sort's argument (filtered_graph_for_sort)
    in_degree,           \* topological_sort
    sort_queue,          \* topological_sort: its local deque "queue"
    sorted_nodes,        \* topological_sort
    sort_outcome,        \* how topological_sort ended
    cycle_nodes,         \* the names the cycle error reports
    manifest,            \* the "modules" list written to the output file
    enqueued,            \* history: how often each name entered queue
    extracted,           \* history: how often parse_vcpkg_portfile ran per name
    options_str,         \* _parse_cmake_options: group 1 of its match in content
    options_version,     \* _parse_cmake_options: its argument package_version
    options_returned,    \* _parse_cmake_options: what the call gave
    options_block,       \* _parse_cmake_options: content from the first option on
    descriptor,          \* parse_vcpkg_portfile: the port directory it is called on
    first_result,        \* parse_vcpkg_portfile: what a call on descriptor gave
    second_result,       \* parse_vcpkg_portfile: what another call on it gave
    download_url,        \* calculate_sha256_from_url: its argument url
    attempt,             \* calculate_sha256_from_url: the attempts made
    temp_filepath,       \* calculate_sha256_from_url: whether the temporary file exists
    responses,           \* calculate_sha256_from_url: how each attempt ended
    download_result,     \* calculate_sha256_from_url: what the call returned
    generator,           \* which of the two Maven scripts runs
    maven_repositories,  \* Maven scripts: the list parse_pom_for_repositories gave
    all_gavs,            \* Maven scripts: the GAVs in the order the loop takes them
    serving,             \* the repositories that answer 200 to the URLs built for them
    gav_pos,             \* Maven scripts: the GAVs the loop is done with
    url_pos,             \* Maven scripts: the URLs of the current GAV it is done with
    flatpak_sources,     \* generate_flatpak_maven_sources_urls: the source list
    processed_urls,      \* generate_flatpak_maven_sources_urls: its set of URLs
    flatpak_urls,        \* get_maven_download_urls: the source list
    added_urls,          \* get_maven_download_urls: its set of URLs
    sources_file         \* the source list written to the output file

vars == <<pc, ports, start_packages, queue, processed_packages,
          all_modules_data, package_deps_map, graph_for_sort, build_pos,
          graph, in_degree, sort_queue, sorted_nodes, sort_outcome,
          cycle_nodes, manifest, enqueued, extracted,
          options_str, options_version, options_returned,
          options_block, descriptor, first_result, second_result,
          download_url, attempt, temp_filepath, responses, download_result,
          generator, maven_repositories, all_gavs, serving, gav_pos, url_pos,
          flatpak_sources, processed_urls, flatpak_urls, added_urls, sources_file>>

\* The variables of the Maven scripts.
maven_vars ==
    <<download_url, attempt, temp_filepath, responses, download_result,
      generator, maven_repositories, all_gavs, serving, gav_pos, url_pos,
      flatpak_sources, processed_urls, flatpak_urls, added_urls, sources_file>>

None == "<None>"

\* No Maven script runs.
MavenIdle ==
    /\ download_url = None
    /\ attempt = 0
    /\ temp_filepath = FALSE
    /\ responses = <<>>
    /\ download_result = None
    /\ generator = None
    /\ maven_repositories = <<>>
    /\ all_gavs = <<>>
    /\ serving = {}
    /\ gav_pos = 0
    /\ url_pos = 0
    /\ flatpak_sources = <<>>
    /\ processed_urls = {}
    /\ flatpak_urls = <<>>
    /\ added_urls = {}
    /\ sources_file = None

-----------------------------------------------------------------------------
(* Sequences, sets and dicts *)

Range(s) == {s[i] : i \in 1..Len(s)}

\* The sequences of length 0..n over S.
SeqsUpTo(S, n) == UNION {[1..k -> S] : k \in 0..n}

\* Every order in which a loop can visit the set S.
Orders(S) == {o \in [1..Cardinality(S) -> S] : Range(o) = S}

\* The sequences without repetition over S, of every length up to n.
InjectiveSeqs(S, n) ==
    {s \in SeqsUpTo(S, n) : \A i, j \in 1..Len(s) : s[i] = s[j] => i = j}

\* Position of the first x in s (x occurs in s).
IndexOf(s, x) == CHOOSE i \in 1..Len(s) : s[i] = x /\ \A j \in 1..(i-1) : s[j] # x

EmptyDict == [keys |-> <<>>, val |-> <<>>]

DictHas(d, k) == k \in Range(d.keys)

\* d[k] = v: a new key goes to the end, an old key keeps its place.
DictSet(d, k, v) ==
    IF DictHas(d, k)
    THEN [d EXCEPT !.val = [x \in Range(d.keys) |-> IF x = k THEN v ELSE d.val[x]]]
    ELSE [keys |-> Append(d.keys, k),
          val  |-> [x \in Range(d.keys) \cup {k} |-> IF x = k THEN v ELSE d.val[x]]]

\* defaultdict(set): d[k], which creates the key with an empty set.
DictTouch(d, k) == IF DictHas(d, k) THEN d ELSE DictSet(d, k, {})

\* defaultdict(set): d[k].add(x)
DictAdd(d, k, x) == DictSet(DictTouch(d, k), k, DictTouch(d, k).val[k] \cup {x})

-----------------------------------------------------------------------------
(* Strings: the str methods the extractor uses *)

\* The printable ASCII characters in code order (the grave accent, which a
\* TLA+ string cannot hold, left out); a character's place in it orders
\* strings the way Python compares them.
Ascii == " !\"#$%&'()*+,-./0123456789:;<=>?@ABCDEFGHIJKLMNOPQRSTUVWXYZ[\\]^_abcdefghijklmnopqrstuvwxyz{|}~"

CharAt(s, i) == SubSeq(s, i, i)

Ord(c) == CHOOSE i \in 1..Len(Ascii) : CharAt(Ascii, i) = c

\* s.startswith(p)
StartsWith(s, p) == Len(s) >= Len(p) /\ SubSeq(s, 1, Len(p)) = p

\* p in s
Contains(s, p) == \E i \in 1..(Len(s) - Len(p) + 1) : SubSeq(s, i, i + Len(p) - 1) = p

\* c in chars, for a character c
CharIn(c, chars) == \E i \in 1..Len(chars) : CharAt(chars, i) = c

RECURSIVE Replace(_, _, _)
\* s.replace(old, new), old not empty: the occurrences from the left, not
\* overlapping.
Replace(s, old, new) ==
    IF Len(s) < Len(old) THEN s
    ELSE IF SubSeq(s, 1, Len(old)) = old
         THEN new \o Replace(SubSeq(s, Len(old) + 1, Len(s)), old, new)
         ELSE CharAt(s, 1) \o Replace(SubSeq(s, 2, Len(s)), old, new)

RECURSIVE LStrip(_, _)
\* s.lstrip(chars)
LStrip(s, chars) ==
    IF Len(s) > 0 /\ CharIn(CharAt(s, 1), chars)
    THEN LStrip(SubSeq(s, 2, Len(s)), chars)
    ELSE s

RECURSIVE RStrip(_, _)
\* s.rstrip(chars)
RStrip(s, chars) ==
    IF Len(s) > 0 /\ CharIn(CharAt(s, Len(s)), chars)
    THEN RStrip(SubSeq(s, 1, Len(s) - 1), chars)
    ELSE s

\* s.strip(chars)
StripChars(s, chars) == RStrip(LStrip(s, chars), chars)

Whitespace == " \t\n\r"

\* s.strip()
Strip(s) == StripChars(s, Whitespace)

RECURSIVE StrLess(_, _)
\* a < b, as Python orders strings
StrLess(a, b) ==
    IF Len(b) = 0 THEN FALSE
    ELSE IF Len(a) = 0 THEN TRUE
    ELSE IF CharAt(a, 1) = CharAt(b, 1)
         THEN StrLess(SubSeq(a, 2, Len(a)), SubSeq(b, 2, Len(b)))
         ELSE Ord(CharAt(a, 1)) < Ord(CharAt(b, 1))

RECURSIVE SortedStrings(_)
\* sorted(S) for a set S of strings: the least first, the others after it.
SortedStrings(S) ==
    IF S = {} THEN <<>>
    ELSE LET least == CHOOSE x \in S : \A y \in S \ {x} : StrLess(x, y)
         IN  <<least>> \o SortedStrings(S \ {least})

RECURSIVE Dedup(_)
\* list(dict.fromkeys(s)): the first occurrence of each element, in order.
Dedup(s) ==
    IF s = <<>> THEN <<>>
    ELSE LET front == Dedup(SubSeq(s, 1, Len(s) - 1))
             last  == s[Len(s)]
         IN  IF last \in Range(front) THEN front ELSE Append(front, last)

-----------------------------------------------------------------------------
(* The extractor.                                                           *)
(*                                                                          *)
(* A portfile is modelled by what the extractor's regular expressions       *)
(* capture from its text, a record "content":                               *)
(*   distfile         the vcpkg_download_distfile match of line 66:         *)
(*                    matched, archive (group 1), urls (the URLS group),    *)
(*                    sha512; a group that did not take part is None        *)
(*   extract_no_remove  line 122: vcpkg_extract_source_archive names the    *)
(*                    archive and carries NO_REMOVE_ONE_LEVEL               *)
(*   extract_patches  line 138: the *.patch tokens of that call             *)
(*   github           the vcpkg_from_github match of line 144: matched,     *)
(*                    repo (group 1)                                        *)
(*   github_patches   line 178: the *.patch tokens after PATCHES            *)
(*   options          line 192: group 1 of the vcpkg_cmake_configure match, *)
(*                    None without a match.  The expression of line 185     *)
(*                    ends the group at the first line break that any       *)
(*                    non-blank text follows, so the group is one line of   *)
(*                    the portfile, or one line and trailing blank lines    *)
(*   find             line 218: the names of the vcpkg_find_package calls   *)
(*   features         line 226: the words of the FEATURES list              *)
(*   tools            line 235: the words of the TOOL_NAMES list            *)
(* and the sibling vcpkg.json by a record "metadata":                       *)
(*   state            "missing", "unparseable" (yaml.safe_load or .get      *)
(*                    raises) or "parsed"                                   *)
(*   version, version_string   the two fields, None when absent             *)
(***************************************************************************)

\* What an operator yields when the Python function raises.
Raised == "<raised>"

NoDistfile == [matched |-> FALSE, archive |-> None, urls |-> None, sha512 |-> None]
NoGithub == [matched |-> FALSE, repo |-> None]

\* A portfile in which no regular expression of the extractor matches.
EmptyContent ==
    [distfile |-> NoDistfile, extract_no_remove |-> FALSE, extract_patches |-> <<>>,
     github |-> NoGithub, github_patches |-> <<>>, options |-> None,
     find |-> <<>>, features |-> <<>>, tools |-> <<>>]

NoMetadata == [state |-> "missing", version |-> None, version_string |-> None]

\* bool(x) for x a str or None
Truthy(x) == x # None /\ x # ""

\* a or b
Or(a, b) == IF Truthy(a) THEN a ELSE b

WordChars == "abcdefghijklmnopqrstuvwxyzABCDEFGHIJKLMNOPQRSTUVWXYZ0123456789_"

\* re.fullmatch(r'\w+', s)
IsWord(s) == Len(s) > 0 /\ \A i \in 1..Len(s) : CharIn(CharAt(s, i), WordChars)

\* Line 27: re.match(r'\$\{\w+_FEATURE_OPTIONS\}', opt)
MatchesFeatureOptionsVar(opt) ==
    /\ StartsWith(opt, "${")
    /\ \E k \in 1..(Len(opt) - 2) :
          /\ IsWord(SubSeq(opt, 3, 2 + k))
          /\ StartsWith(SubSeq(opt, 3 + k, Len(opt)), "_FEATURE_OPTIONS}")

\* Lines 39-49.
IsVcpkgOnlyOption(opt) ==
    \/ \E p \in {"-DCMAKE_TOOLCHAIN_FILE", "-DVCPKG_TARGET_TRIPLET",
                 "-DVCPKG_SET_CHARSET_FLAG", "-DDLL_OUT_DIR", "-DARCHIVE_OUT_DIR",
                 "-DCMAKE_DEBUG_POSTFIX", "-D_VCPKG_NO_DEFAULT_PATH_W",
                 "-D_VCPKG_FIND_ROOT_PATH_", "-DCMAKE_MFC_FLAG"} : StartsWith(opt, p)
    \/ Contains(opt, "VCPKG_CRT_LINKAGE")
    \/ Contains(opt, "VCPKG_LIBRARY_LINKAGE")

\* Lines 54-57.
IsInstallDirOption(opt) ==
    \E p \in {"-DgRPC_INSTALL_BINDIR", "-DgRPC_INSTALL_LIBDIR",
              "-DgRPC_INSTALL_INCLUDEDIR", "-DgRPC_INSTALL_CMAKEDIR"} : StartsWith(opt, p)

\* Lines 31-36, package_version a str.
SubstitutePaths(opt, package_version) ==
    Replace(
      Replace(
        Replace(
          Replace(
            Replace(opt,
                    "${CURRENT_HOST_INSTALLED_DIR}/tools/protobuf/protoc${VCPKG_HOST_EXECUTABLE_SUFFIX}",
                    "/app/vendor/bin/protoc"),
            "${CURRENT_INSTALLED_DIR}", "/app/vendor"),
          "${CURRENT_HOST_INSTALLED_DIR}", "/app/vendor"),
        "${CURRENT_PACKAGES_DIR}", "/app/vendor"),
      "${VERSION}", package_version)

\* _clean_cmake_option: the cleaned option, None when the option is dropped,
\* Raised when package_version is None (str.replace then raises TypeError at
\* line 36).
clean_cmake_option(opt, package_version) ==
    LET stripped == StripChars(StripChars(Strip(opt), "\""), "'")
    IN  IF stripped = "" \/ StartsWith(stripped, "#") THEN None
        ELSE IF Contains(stripped, "${FEATURE_OPTIONS}") \/ MatchesFeatureOptionsVar(stripped)
             THEN None
        ELSE IF package_version = None THEN Raised
        ELSE LET translated == SubstitutePaths(stripped, package_version)
             IN  IF IsVcpkgOnlyOption(translated) \/ IsInstallDirOption(translated)
                 THEN None
                 ELSE translated

\* Lines 202-206.
essential_opts ==
    <<"-DCMAKE_BUILD_TYPE=Release",
      "-DCMAKE_INSTALL_PREFIX=/app/vendor",
      "-DCMAKE_POSITION_INDEPENDENT_CODE=ON">>

IsSpace(s, k) == CharIn(CharAt(s, k), Whitespace)

RECURSIVE SplitLines(_)
\* re.split(r'\s*\n\s*', s): s cut at every run of white space that holds a
\* line break.
SplitLines(s) ==
    IF ~Contains(s, "\n") THEN <<s>>
    ELSE LET i == CHOOSE k \in 1..Len(s) :
                     CharAt(s, k) = "\n" /\ \A j \in 1..(k - 1) : CharAt(s, j) # "\n"
             p == CHOOSE k \in 1..i :
                     /\ \A j \in k..i : IsSpace(s, j)
                     /\ (k = 1 \/ ~IsSpace(s, k - 1))
             q == CHOOSE k \in i..Len(s) :
                     /\ \A j \in i..k : IsSpace(s, j)
                     /\ (k = Len(s) \/ ~IsSpace(s, k + 1))
         IN  <<SubSeq(s, 1, p - 1)>> \o SplitLines(SubSeq(s, q + 1, Len(s)))

\* Lines 190-193: the pieces of the block, stripped, without the empty ones.
RawOpts(options) ==
    IF options = None THEN <<>>
    ELSE LET pieces == SplitLines(options)
         IN  SelectSeq([i \in 1..Len(pieces) |-> Strip(pieces[i])], LAMBDA o : o # "")

\* Lines 195-199: the cleaned options that are kept.
CleanOpts(raw_opts, package_version) ==
    SelectSeq([i \in 1..Len(raw_opts) |-> clean_cmake_option(raw_opts[i], package_version)],
              LAMBDA c : Truthy(c))

\* Line 210: sorted(list(dict.fromkeys(all_opts).keys()))
SortedUnique(all_opts) == SortedStrings(Range(Dedup(all_opts)))

\* _parse_cmake_options: raised where _clean_cmake_option raises, the option
\* list otherwise.
parse_cmake_options(options, package_version) ==
    LET raw_opts == RawOpts(options)
    IN  IF \E i \in 1..Len(raw_opts) :
              clean_cmake_option(raw_opts[i], package_version) = Raised
        THEN [raised |-> TRUE, opts |-> <<>>]
        ELSE [raised |-> FALSE,
              opts   |-> SortedUnique(essential_opts \o CleanOpts(raw_opts, package_version))]

UpperLetters == "ABCDEFGHIJKLMNOPQRSTUVWXYZ"
LowerLetters == "abcdefghijklmnopqrstuvwxyz"

LowerChar(c) ==
    IF CharIn(c, UpperLetters)
    THEN CharAt(LowerLetters, CHOOSE i \in 1..Len(UpperLetters) : CharAt(UpperLetters, i) = c)
    ELSE c

RECURSIVE Lower(_)
\* s.lower()
Lower(s) == IF s = "" THEN "" ELSE LowerChar(CharAt(s, 1)) \o Lower(SubSeq(s, 2, Len(s)))

\* Line 228: the feature names that are not taken for packages.
FeatureStoplist ==
    {"core", "dbg", "tools", "doc", "test", "examples", "opengl", "debug", "private"}

\* Lines 217-229: the names of the vcpkg_find_package calls, then the features
\* that are not in the stoplist.
DirectDependencies(content) ==
    content.find \o SelectSeq(content.features, LAMBDA f : Lower(f) \notin FeatureStoplist)

\* Lines 237-242: host_dependencies after the tool name "tool" is handled.
AddTool(host_dependencies, tool) ==
    IF Contains(tool, "grpc") /\ "grpc" \notin Range(host_dependencies)
    THEN Append(host_dependencies, "grpc")
    ELSE IF Contains(tool, "protoc") /\ "protobuf" \notin Range(host_dependencies)
         THEN Append(host_dependencies, "protobuf")
         ELSE Append(host_dependencies, tool)

RECURSIVE HostDependencies(_)
\* Lines 236-242: the loop over tool_names.
HostDependencies(tool_names) ==
    IF tool_names = <<>> THEN <<>>
    ELSE AddTool(HostDependencies(SubSeq(tool_names, 1, Len(tool_names) - 1)),
                 tool_names[Len(tool_names)])

\* Lines 246-247 without the test dep != package_name.
WithoutSelfUnfiltered(deps, package_name) == Dedup(deps)

\* Lines 245-246: the list without package_name, each name once.
WithoutSelf(deps, package_name) == Dedup(SelectSeq(deps, LAMBDA d : d # package_name))

\* _parse_dependencies
parse_dependencies(content, package_name) ==
    [direct |-> WithoutSelf(DirectDependencies(content), package_name),
     host   |-> WithoutSelf(HostDependencies(content.tools), package_name)]

UrlStopChars == " \t\n\r,\""

RECURSIVE UrlBody(_)
\* The longest prefix of s that re [^\s,"]* matches.
UrlBody(s) ==
    IF s = "" \/ CharIn(CharAt(s, 1), UrlStopChars) THEN ""
    ELSE CharAt(s, 1) \o UrlBody(SubSeq(s, 2, Len(s)))

\* What re https?://[^\s,"]+ matches at position i of s, "" if nothing.
UrlAt(s, i) ==
    LET rest   == SubSeq(s, i, Len(s))
        scheme == IF StartsWith(rest, "https://") THEN "https://"
                  ELSE IF StartsWith(rest, "http://") THEN "http://" ELSE ""
        body   == UrlBody(SubSeq(rest, Len(scheme) + 1, Len(rest)))
    IN  IF scheme = "" \/ body = "" THEN "" ELSE scheme \o body

\* Lines 86 and 90: urls[0] if urls else ""
FirstUrl(urls_str) ==
    IF \E i \in 1..Len(urls_str) : UrlAt(urls_str, i) # ""
    THEN UrlAt(urls_str, CHOOSE i \in 1..Len(urls_str) :
                            /\ UrlAt(urls_str, i) # ""
                            /\ \A j \in 1..(i - 1) : UrlAt(urls_str, j) = "")
    ELSE ""

\* Line 97: re.match(r'https://github.com/([^/]+/[^/]+)/releases/download', url),
\* the dot of the expression matching any character.
IsGithubRelease(url) ==
    /\ Len(url) >= 19
    /\ SubSeq(url, 1, 14) = "https://github"
    /\ SubSeq(url, 16, 19) = "com/"
    /\ LET rest == SubSeq(url, 20, Len(url))
       IN  \E i, j \in 1..Len(rest) :
              /\ i + 1 < j
              /\ ~Contains(SubSeq(rest, 1, i), "/")
              /\ CharAt(rest, i + 1) = "/"
              /\ ~Contains(SubSeq(rest, i + 2, j), "/")
              /\ StartsWith(SubSeq(rest, j + 1, Len(rest)), "/releases/download")

\* Lines 96-110: the type of the x-checker-data written for the archive, ""
\* when it stays empty.
CheckerType(url) ==
    IF url # "" /\ Contains(url, "github.com")
    THEN IF IsGithubRelease(url) THEN "github" ELSE ""
    ELSE IF url # "" THEN "html" ELSE ""

\* Lines 84-127: the archive source, package_version a str.
ArchiveSource(content, package_version) ==
    LET url == FirstUrl(Replace(content.distfile.urls, "${VERSION}", package_version))
    IN  [type          |-> "archive",
         url           |-> url,
         sha512        |-> IF Truthy(content.distfile.sha512)
                           THEN Lower(content.distfile.sha512)
                           ELSE "UNKNOWN_SHA512",
         checker       |-> CheckerType(url),
         extract_strip |-> IF content.extract_no_remove THEN 0 ELSE 1]

NoSources == [matched |-> FALSE, raised |-> FALSE, sources |-> <<>>, patches |-> <<>>]

\* _parse_vcpkg_download_distfile: matched is FALSE where the function returns
\* None; raised where str.replace raises TypeError (line 85, package_version
\* None).
parse_vcpkg_download_distfile(content, package_name, package_version) ==
    IF ~content.distfile.matched THEN NoSources
    ELSE IF Truthy(content.distfile.urls)
         THEN IF package_version = None
              THEN [NoSources EXCEPT !.matched = TRUE, !.raised = TRUE]
              ELSE [matched |-> TRUE, raised |-> FALSE,
                    sources |-> <<ArchiveSource(content, package_version)>>,
                    patches |-> content.extract_patches]
         ELSE [matched |-> TRUE, raised |-> FALSE,
               sources |-> <<>>, patches |-> content.extract_patches]

\* Line 164.
GitTag(source_tag) ==
    IF StartsWith(source_tag, "v") \/ StartsWith(source_tag, "V")
    THEN LStrip(source_tag, "vV")
    ELSE source_tag

\* _parse_vcpkg_from_github: matched is FALSE where the function returns None;
\* raised where None.startswith raises AttributeError (line 164).
parse_vcpkg_from_github(content, package_name, package_version) ==
    IF ~content.github.matched THEN NoSources
    ELSE IF package_version = None
         THEN [NoSources EXCEPT !.matched = TRUE, !.raised = TRUE]
         ELSE [matched |-> TRUE, raised |-> FALSE,
               sources |-> <<[type    |-> "git",
                              url     |-> "https://github.com/" \o content.github.repo \o ".git",
                              tag     |-> GitTag(package_version),
                              checker |-> "git"]>>,
               patches |-> content.github_patches]

\* Lines 262-270: package_version; None when vcpkg.json parses and holds
\* neither field.
ResolveVersion(metadata) ==
    IF metadata.state # "parsed" THEN "UNKNOWN_VERSION"
    ELSE LET v == Or(metadata.version, metadata.version_string)
         IN  IF Truthy(v) /\ StartsWith(v, "v") THEN SubSeq(v, 2, Len(v)) ELSE v

\* Lines 284-290 with the two idioms tried in the other order.
SourcesAndPatchesGitFirst(content, package_name, package_version) ==
    LET from_github == parse_vcpkg_from_github(content, package_name, package_version)
    IN  IF from_github.matched THEN from_github
        ELSE parse_vcpkg_download_distfile(content, package_name, package_version)

\* Lines 284-290: the acquisition idioms in their order of precedence.  The
\* pair the first function returns is a non-empty tuple, true also when both
\* of its lists are empty.
SourcesAndPatches(content, package_name, package_version) ==
    LET distfile == parse_vcpkg_download_distfile(content, package_name, package_version)
    IN  IF distfile.matched THEN distfile
        ELSE parse_vcpkg_from_github(content, package_name, package_version)

\* Line 299 without sorted(): list(set(all_patches)), in the order of one
\* interpreter run at the first call and in the order of another at the next.
PatchFilesUnsorted(all_patches) ==
    LET files == SortedStrings(Range(all_patches))
    IN  IF pc = "extract_again"
        THEN [i \in 1..Len(files) |-> files[Len(files) + 1 - i]]
        ELSE files

\* Line 299: sorted(list(set(all_patches)))
PatchFiles(all_patches) == SortedStrings(Range(all_patches))

BaseInstallCommand == "cmake --build . --target install"

\* Lines 299-303: the file sources appended for the patches.
PatchSources(patch_files) ==
    [i \in 1..Len(patch_files) |-> [type |-> "file", path |-> "patches/" \o patch_files[i]]]

\* Lines 299-308 with the install command added before the loop of line 299.
InstallCommandsBaseFirst(patch_files) ==
    <<BaseInstallCommand>> \o [i \in 1..Len(patch_files) |-> "patch -p1 < " \o patch_files[i]]

\* Lines 299-308.
InstallCommands(patch_files) ==
    LET applied == [i \in 1..Len(patch_files) |-> "patch -p1 < " \o patch_files[i]]
    IN  IF applied = <<>> \/ BaseInstallCommand \notin Range(applied)
        THEN Append(applied, BaseInstallCommand)
        ELSE applied

\* parse_vcpkg_portfile, of the portfile "content" in the directory
\* package_name with the vcpkg.json "metadata": raised, or the module record
\* and the two dependency lists.
parse_vcpkg_portfile(content, package_name, metadata) ==
    LET package_version == ResolveVersion(metadata)
        found           == SourcesAndPatches(content, package_name, package_version)
        config_opts     == parse_cmake_options(content.options, package_version)
        dependencies    == parse_dependencies(content, package_name)
    IN  IF found.raised \/ config_opts.raised
        THEN [raised |-> TRUE]
        ELSE [raised |-> FALSE,
              module_data |->
                 [name             |-> package_name,
                  builddir         |-> TRUE,
                  sources          |-> found.sources \o
                                       PatchSources(PatchFiles(found.patches)),
                  buildsystem      |-> "cmake",
                  config_opts      |-> config_opts.opts,
                  install_commands |-> InstallCommands(PatchFiles(found.patches))],
              direct_dependencies |-> dependencies.direct,
              host_dependencies   |-> dependencies.host]

-----------------------------------------------------------------------------
(* topological_sort *)

\* in_degree after lines 320-323: the number of edges into each node.
InDegrees(g) ==
    [v \in Range(g.keys) |-> Cardinality({u \in Range(g.keys) : v \in g.val[u]})]

\* Line 325: the nodes of in-degree zero, in the dict's order.
ZeroInDegree(g, deg) == SelectSeq(g.keys, LAMBDA u : deg[u] = 0)

\* Lines 331-332: in_degree after the loop over the successors succ of u.
Decremented(deg, succ) == [v \in DOMAIN deg |-> IF v \in succ THEN deg[v] - 1 ELSE deg[v]]

\* Lines 333-334 without the test of line 333: every successor is appended.
NewlyReadyUntested(deg, order) == order

\* Lines 333-334: the successors appended to the queue, in the order the loop
\* visits them.
NewlyReady(deg, order) == SelectSeq(order, LAMBDA v : deg[v] - 1 = 0)

\* Lines 320-326.
topological_sort_enter ==
    /\ pc = "sort_enter"
    /\ in_degree' = InDegrees(graph)
    /\ sort_queue' = ZeroInDegree(graph, InDegrees(graph))
    /\ sorted_nodes' = <<>>
    /\ pc' = "sort_loop"
    /\ UNCHANGED <<ports, start_packages, queue, processed_packages,
                   all_modules_data, package_deps_map, graph_for_sort, build_pos,
                   graph, sort_outcome, cycle_nodes, manifest, enqueued, extracted,
                   options_str, options_version, options_returned,
                   options_block, descriptor, first_result, second_result,
                   maven_vars>>

\* Lines 328-334: one iteration of "while queue".
topological_sort_loop ==
    /\ pc = "sort_loop"
    /\ sort_queue # <<>>
    /\ LET u == Head(sort_queue) IN
       \E order \in Orders(graph.val[u]) :
          /\ sorted_nodes' = Append(sorted_nodes, u)
          /\ in_degree' = Decremented(in_degree, graph.val[u])
          /\ sort_queue' = Tail(sort_queue) \o NewlyReady(in_degree, order)
    /\ UNCHANGED <<pc, ports, start_packages, queue, processed_packages,
                   all_modules_data, package_deps_map, graph_for_sort, build_pos,
                   graph, sort_outcome, cycle_nodes, manifest, enqueued, extracted,
                   options_str, options_version, options_returned,
                   options_block, descriptor, first_result, second_result,
                   maven_vars>>

\* Line 336 with a test that never finds the list short.
SortNeverIncomplete(nodes, g) == FALSE

\* Line 336: the test that decides between the error and the return.
SortIncomplete(nodes, g) == Len(nodes) # Len(g.keys)

\* Line 337 keeping only the nodes that have successors.
RemainingWithSuccessors(g, nodes) ==
    {n \in Range(g.keys) \ Range(nodes) : g.val[n] # {}}

\* Line 337.
RemainingNodes(g, nodes) == Range(g.keys) \ Range(nodes)

\* Lines 336-345: the queue is empty; raise ValueError or return sorted_nodes.
topological_sort_exit ==
    /\ pc = "sort_loop"
    /\ sort_queue = <<>>
    /\ IF SortIncomplete(sorted_nodes, graph)
       THEN IF RemainingNodes(graph, sorted_nodes) # {}
            THEN /\ sort_outcome' = "cycle"
                 /\ cycle_nodes' = RemainingNodes(graph, sorted_nodes)
            ELSE /\ sort_outcome' = "unknown"
                 /\ UNCHANGED cycle_nodes
       ELSE /\ sort_outcome' = "returned"
            /\ UNCHANGED cycle_nodes
    /\ pc' = "sort_exit"
    /\ UNCHANGED <<ports, start_packages, queue, processed_packages,
                   all_modules_data, package_deps_map, graph_for_sort, build_pos,
                   graph, in_degree, sort_queue, sorted_nodes, manifest,
                   enqueued, extracted,
                   options_str, options_version, options_returned,
                   options_block, descriptor, first_result, second_result,
                   maven_vars>>

-----------------------------------------------------------------------------
(* _parse_cmake_options on its own: the call on every portfile of a pool,   *)
(* with every kind of package_version that parse_vcpkg_portfile passes.     *)

\* No call of _parse_cmake_options was made.
NotCalled == [called |-> FALSE, raised |-> FALSE, opts |-> <<>>]

\* First lines of an OPTIONS block, which is what the expression of line 185
\* captures when more text follows the line; None where it does not match.
OptionLines ==
    {None,
     "-DBUILD_TESTING=OFF",
     "-DZLIB_ROOT=${CURRENT_INSTALLED_DIR}",
     "-DCMAKE_BUILD_TYPE=Release",
     "-DCMAKE_BUILD_TYPE=Debug",
     "-DCMAKE_INSTALL_PREFIX=/usr",
     "-DCMAKE_POSITION_INDEPENDENT_CODE=ON",
     "-DPKG_VERSION=${VERSION}",
     "${FEATURE_OPTIONS}",
     "${GRPC_FEATURE_OPTIONS}",
     "-DCMAKE_TOOLCHAIN_FILE=vcpkg.cmake",
     "-DgRPC_INSTALL_BINDIR:STRING=bin",
     "-DVCPKG_CRT_LINKAGE=static",
     "# no options",
     "\"-DQUOTED=ON\"",
     "-Dprotobuf_BUILD_TESTS=OFF",
     "-D_WITH_TLS=ON",
     "-G Ninja",
     "-Wno-dev",
     ")"}

\* Lines 184-188: the lookahead (?=\n\s*\S|$) at the text "rest"; $ matches
\* at the end of the content and before a line break that ends it.
OptionsEndAt(rest) ==
    \/ rest = ""
    \/ rest = "\n"
    \/ CharAt(rest, 1) = "\n" /\ Strip(rest) # ""

\* Lines 184-192: group 1 of the match, for a content that reads "block" from
\* the first character after OPTIONS and its white space on (None: the
\* expression does not match).  The group is lazy: it is the shortest text
\* that the lookahead follows.
OptionsGroup(block) ==
    IF block = None THEN None
    ELSE LET k == CHOOSE i \in 0..Len(block) :
                     /\ OptionsEndAt(SubSeq(block, i + 1, Len(block)))
                     /\ \A j \in 0..(i - 1) : ~OptionsEndAt(SubSeq(block, j + 1, Len(block)))
         IN  SubSeq(block, 1, k)

\* The option lines that the pool combines into blocks of two lines.
PairedLines ==
    {"-DBUILD_TESTING=OFF",
     "-DZLIB_ROOT=${CURRENT_INSTALLED_DIR}",
     "-DCMAKE_BUILD_TYPE=Release",
     "${FEATURE_OPTIONS}"}

\* The portfiles of the pool, each from the first character after OPTIONS and
\* its white space on: no vcpkg_cmake_configure call (None), a block of one
\* line, of two lines, an empty block, a block that ends the file.
OptionBlocks ==
    {None, ")\nvcpkg_cmake_install()\n", "-DBUILD_TESTING=OFF\n"}
    \cup {l \o "\n)\nvcpkg_cmake_install()\n" : l \in OptionLines \ {None, ")"}}
    \cup {a \o "\n        " \o b \o "\n)\n" : a \in PairedLines, b \in PairedLines}

\* Lines 262-270: the values package_version can have.
OptionVersions == {"UNKNOWN_VERSION", "1.2.3", "", None}

\* The call of line 311.
parse_cmake_options_call ==
    /\ pc = "options_call"
    /\ LET result == parse_cmake_options(options_str, options_version)
       IN  options_returned' = [called |-> TRUE, raised |-> result.raised,
                                opts |-> result.opts]
    /\ pc' = "options_return"
    /\ UNCHANGED <<ports, start_packages, queue, processed_packages,
                   all_modules_data, package_deps_map, graph_for_sort, build_pos,
                   graph, in_degree, sort_queue, sorted_nodes, sort_outcome,
                   cycle_nodes, manifest, enqueued, extracted,
                   options_str, options_version,
                   options_block, descriptor, first_result, second_result,
                   maven_vars>>

InitOptions ==
    /\ pc = "options_call"
    /\ options_block \in OptionBlocks
    /\ options_str = OptionsGroup(options_block)
    /\ options_version \in OptionVersions
    /\ options_returned = NotCalled
    /\ descriptor = None
    /\ first_result = None
    /\ second_result = None
    /\ ports = <<>>
    /\ start_packages = <<>>
    /\ queue = <<>>
    /\ processed_packages = {}
    /\ all_modules_data = <<>>
    /\ package_deps_map = <<>>
    /\ graph_for_sort = <<>>
    /\ build_pos = 0
    /\ graph = <<>>
    /\ in_degree = <<>>
    /\ sort_queue = <<>>
    /\ sorted_nodes = <<>>
    /\ sort_outcome = "none"
    /\ cycle_nodes = {}
    /\ manifest = <<>>
    /\ enqueued = <<>>
    /\ extracted = <<>>
    /\ MavenIdle

NextOptions == parse_cmake_options_call

SpecOptions == InitOptions /\ [][NextOptions]_vars

-----------------------------------------------------------------------------
(* The ports directory.  The run reads a port directory when the crawl      *)
(* first reaches its name; the model chooses what is there at that moment   *)
(* and keeps the choice, the directory not changing during a run.           *)

\* The names the run can meet: X, Y and Z can have a port directory, W has
\* none (a library of the system, or a misspelt name).
PortNames == {"W", "X", "Y", "Z"}
Unported == {"W"}

MaxRoots == 2
MaxDeps == 2
MaxDepTokens == 3
MaxLeafPorts == 1

Unread == [state |-> "unread", content |-> EmptyContent, metadata |-> NoMetadata]
Absent == [state |-> "absent", content |-> EmptyContent, metadata |-> NoMetadata]

Present(content, metadata) ==
    [state |-> "present", content |-> content, metadata |-> metadata]

\* The names a portfile asks for as a tool (vcpkg_find_acquire_program).
ToolNames == {"X"}

\* Portfiles that only declare dependencies, with vcpkg_find_package calls and
\* at most one tool name, and have no vcpkg.json beside them.
DependencyPorts ==
    {Present([EmptyContent EXCEPT !.find = f, !.tools = t], NoMetadata) :
        f \in SeqsUpTo(PortNames, MaxDeps),
        t \in SeqsUpTo(ToolNames, 1)}

GithubContent == [EmptyContent EXCEPT !.github = [matched |-> TRUE, repo |-> "owner/repo"]]
ArchiveContent ==
    [EmptyContent EXCEPT !.distfile =
        [matched |-> TRUE, archive |-> "ARCHIVE",
         urls |-> "https://example.org/pkg-${VERSION}.tar.gz", sha512 |-> None]]
ArchiveNoUrlContent ==
    [EmptyContent EXCEPT !.distfile =
        [matched |-> TRUE, archive |-> "ARCHIVE", urls |-> None, sha512 |-> None]]
OptionContent == [EmptyContent EXCEPT !.options = "-DBUILD_TESTING=OFF"]

Metadata(version, version_string) ==
    [state |-> "parsed", version |-> version, version_string |-> version_string]
Unparseable == [state |-> "unparseable", version |-> None, version_string |-> None]

\* Portfiles without dependencies that use the version, in the states of the
\* version metadata: with a version, with a vcpkg.json that does not parse,
\* with one that holds neither version field.
LeafPorts ==
    {Present(GithubContent, Metadata("v1.2.3", None)),
     Present(ArchiveContent, Unparseable),
     Present(ArchiveNoUrlContent, Metadata(None, None)),
     Present(GithubContent, Metadata(None, None)),
     Present(OptionContent, Metadata(None, None))}

PortChoices == DependencyPorts \cup LeafPorts

\* The dependency tokens a port directory declares.
DepTokens(port) ==
    Len(port.content.find) + Len(port.content.features) + Len(port.content.tools)

RECURSIVE TokensIn(_, _)
TokensIn(dir, names) ==
    IF names = {} THEN 0
    ELSE LET n == CHOOSE x \in names : TRUE
         IN  DepTokens(dir[n]) + TokensIn(dir, names \ {n})

\* parse_vcpkg_portfile on every port directory of the model, under every
\* name.
Extraction ==
    [p \in PortChoices, n \in PortNames |-> parse_vcpkg_portfile(p.content, n, p.metadata)]

\* What the run can find in the directory of name.
PortOf(name) ==
    IF ports[name].state # "unread" THEN {ports[name]}
    ELSE {Absent} \cup
         {p \in PortChoices :
             /\ name \notin Unported
             /\ Len(p.content.find) + Len(p.content.tools) <= MaxDeps
             /\ TokensIn(ports, PortNames) + DepTokens(p) <= MaxDepTokens
             /\ p \in LeafPorts =>
                   Cardinality({n \in PortNames : ports[n] \in LeafPorts}) < MaxLeafPorts}

-----------------------------------------------------------------------------
(* main: the crawl, lines 382-406 *)

RECURSIVE QueueAfterUnvisited(_, _, _)
\* Lines 403-405 without the test "dep not in processed_packages".
QueueAfterUnvisited(q, processed, deps) ==
    IF deps = <<>> THEN q
    ELSE LET before == QueueAfterUnvisited(q, processed, SubSeq(deps, 1, Len(deps) - 1))
             dep    == deps[Len(deps)]
         IN  IF dep \notin Range(before) THEN Append(before, dep) ELSE before

\* Lines 403-405 with the loop ending before the last dependency.
QueueAfterAllButLast(q, processed, deps) ==
    LET last == IF deps = <<>> THEN 0 ELSE Len(deps) - 1
        after[i \in 0..last] ==
            IF i = 0 THEN q
            ELSE IF deps[i] \notin processed /\ deps[i] \notin Range(after[i - 1])
                 THEN Append(after[i - 1], deps[i])
                 ELSE after[i - 1]
    IN  after[last]

RECURSIVE QueueAfter(_, _, _)
\* Lines 403-405: queue after the loop over deps.
QueueAfter(q, processed, deps) ==
    IF deps = <<>> THEN q
    ELSE LET before == QueueAfter(q, processed, SubSeq(deps, 1, Len(deps) - 1))
             dep    == deps[Len(deps)]
         IN  IF dep \notin processed /\ dep \notin Range(before)
             THEN Append(before, dep)
             ELSE before

\* Line 406 moved into the if of line 404: a dependency is recorded only when
\* it is appended to the queue.
DepsMapAfterEnqueuedOnly(m, pkg, deps) ==
    LET fresh == SelectSeq(deps, LAMBDA dep :
                     /\ dep \notin processed_packages \cup {pkg}
                     /\ dep \notin Range(Tail(queue)))
    IN  [keys |-> IF fresh = <<>> \/ pkg \in Range(m.keys) THEN m.keys
                  ELSE Append(m.keys, pkg),
         val  |-> IF fresh = <<>> THEN m.val
                  ELSE [k \in DOMAIN m.val \cup {pkg} |->
                          IF k = pkg
                          THEN (IF pkg \in DOMAIN m.val THEN m.val[pkg] ELSE {})
                                  \cup Range(fresh)
                          ELSE m.val[k]]]

RECURSIVE DepsMapAfter(_, _, _)
\* Line 406: package_deps_map after the loop over deps.
DepsMapAfter(m, pkg, deps) ==
    IF deps = <<>> THEN m
    ELSE DictAdd(DepsMapAfter(m, pkg, SubSeq(deps, 1, Len(deps) - 1)), pkg, deps[Len(deps)])

\* How often x occurs in s.
Count(s, x) == Cardinality({i \in 1..Len(s) : s[i] = x})

\* Lines 388-390: the name taken from the queue was extracted before.
main_loop_visited ==
    /\ pc = "crawl"
    /\ queue # <<>>
    /\ Head(queue) \in processed_packages
    /\ queue' = Tail(queue)
    /\ UNCHANGED <<pc, ports, start_packages, processed_packages, all_modules_data,
                   package_deps_map, graph_for_sort, build_pos, graph, in_degree,
                   sort_queue, sorted_nodes, sort_outcome, cycle_nodes, manifest,
                   enqueued, extracted,
                   options_str, options_version, options_returned,
                   options_block, descriptor, first_result, second_result,
                   maven_vars>>

\* Lines 388-395: the name taken from the queue has no portfile.
main_loop_missing ==
    /\ pc = "crawl"
    /\ queue # <<>>
    /\ Head(queue) \notin processed_packages
    /\ \E port \in PortOf(Head(queue)) :
          /\ port.state = "absent"
          /\ ports' = [ports EXCEPT ![Head(queue)] = port]
    /\ queue' = Tail(queue)
    /\ UNCHANGED <<pc, start_packages, processed_packages, all_modules_data,
                   package_deps_map, graph_for_sort, build_pos, graph, in_degree,
                   sort_queue, sorted_nodes, sort_outcome, cycle_nodes, manifest,
                   enqueued, extracted,
                   options_str, options_version, options_returned,
                   options_block, descriptor, first_result, second_result,
                   maven_vars>>

\* Lines 388-406: the name taken from the queue has a portfile, which
\* parse_vcpkg_portfile extracts.
main_loop_extract ==
    /\ pc = "crawl"
    /\ queue # <<>>
    /\ Head(queue) \notin processed_packages
    /\ \E port \in PortOf(Head(queue)) :
          LET current_pkg == Head(queue)
              parsed      == Extraction[port, current_pkg]
              deps        == parsed.direct_dependencies \o parsed.host_dependencies
              processed   == processed_packages \cup {current_pkg}
              after       == QueueAfter(Tail(queue), processed, deps)
          IN  /\ port.state = "present"
              /\ ~parsed.raised
              /\ ports' = [ports EXCEPT ![current_pkg] = port]
              /\ all_modules_data' = (current_pkg :> parsed.module_data) @@ all_modules_data
              /\ processed_packages' = processed
              /\ queue' = after
              /\ package_deps_map' = DepsMapAfter(package_deps_map, current_pkg, deps)
              /\ enqueued' = [n \in PortNames |->
                                enqueued[n] + Count(after, n) - Count(Tail(queue), n)]
              /\ extracted' = [extracted EXCEPT ![current_pkg] = @ + 1]
    /\ UNCHANGED <<pc, start_packages, graph_for_sort, build_pos, graph, in_degree,
                   sort_queue, sorted_nodes, sort_outcome, cycle_nodes, manifest,
                   options_str, options_version, options_returned,
                   options_block, descriptor, first_result, second_result,
                   maven_vars>>

\* Lines 388-399: the name taken from the queue has a portfile, and
\* parse_vcpkg_portfile raises; nothing catches the exception, the run ends
\* with a traceback.
main_loop_raise ==
    /\ pc = "crawl"
    /\ queue # <<>>
    /\ Head(queue) \notin processed_packages
    /\ \E port \in PortOf(Head(queue)) :
          /\ port.state = "present"
          /\ Extraction[port, Head(queue)].raised
          /\ ports' = [ports EXCEPT ![Head(queue)] = port]
    /\ queue' = Tail(queue)
    /\ extracted' = [extracted EXCEPT ![Head(queue)] = @ + 1]
    /\ pc' = "crashed"
    /\ UNCHANGED <<start_packages, processed_packages, all_modules_data,
                   package_deps_map, graph_for_sort, build_pos, graph, in_degree,
                   sort_queue, sorted_nodes, sort_outcome, cycle_nodes, manifest,
                   enqueued,
                   options_str, options_version, options_returned,
                   options_block, descriptor, first_result, second_result,
                   maven_vars>>

\* Line 387: the queue is empty, the loop ends.
main_loop_end ==
    /\ pc = "crawl"
    /\ queue = <<>>
    /\ pc' = "invert"
    /\ UNCHANGED <<ports, start_packages, queue, processed_packages, all_modules_data,
                   package_deps_map, graph_for_sort, build_pos, graph, in_degree,
                   sort_queue, sorted_nodes, sort_outcome, cycle_nodes, manifest,
                   enqueued, extracted,
                   options_str, options_version, options_returned,
                   options_block, descriptor, first_result, second_result,
                   maven_vars>>

-----------------------------------------------------------------------------
(* main: the graph, lines 409-433 *)

RECURSIVE InvertedBackwards(_, _, _, _)
\* Lines 414-419 with the edge of line 416 drawn from the dependent to the
\* dependency.
InvertedBackwards(g, modules, pkg, order) ==
    IF order = <<>> THEN g
    ELSE LET before == InvertedBackwards(g, modules, pkg, SubSeq(order, 1, Len(order) - 1))
             dep    == order[Len(order)]
         IN  IF dep \in modules
             THEN DictTouch(DictAdd(before, pkg, dep), dep)
             ELSE DictTouch(before, dep)

RECURSIVE Inverted(_, _, _, _)
\* Lines 414-419: graph_for_sort after the loop over the dependencies of pkg,
\* visited in the order "order".
Inverted(g, modules, pkg, order) ==
    IF order = <<>> THEN g
    ELSE LET before == Inverted(g, modules, pkg, SubSeq(order, 1, Len(order) - 1))
             dep    == order[Len(order)]
         IN  IF dep \in modules
             THEN DictAdd(before, dep, pkg)
             ELSE DictTouch(before, dep)

\* Lines 413-422: one item of package_deps_map.
main_invert_item ==
    /\ pc = "invert"
    /\ build_pos < Len(package_deps_map.keys)
    /\ LET pkg == package_deps_map.keys[build_pos + 1] IN
       \E order \in Orders(package_deps_map.val[pkg]) :
          graph_for_sort' =
             DictTouch(Inverted(graph_for_sort, DOMAIN all_modules_data, pkg, order), pkg)
    /\ build_pos' = build_pos + 1
    /\ UNCHANGED <<pc, ports, start_packages, queue, processed_packages,
                   all_modules_data, package_deps_map, graph, in_degree, sort_queue,
                   sorted_nodes, sort_outcome, cycle_nodes, manifest, enqueued,
                   extracted,
                   options_str, options_version, options_returned,
                   options_block, descriptor, first_result, second_result,
                   maven_vars>>

\* Lines 426-433 without the filter: graph_for_sort as it is.
Unfiltered(g, modules) == g

\* Lines 426-433: filtered_graph_for_sort.
Filtered(g, modules) ==
    LET kept == SelectSeq(g.keys, LAMBDA u : u \in modules)
    IN  [keys |-> kept,
         val  |-> [u \in Range(kept) |-> {v \in g.val[u] : v \in modules}]]

\* Lines 426-437: the graph is filtered and handed to topological_sort.
main_filter ==
    /\ pc = "invert"
    /\ build_pos = Len(package_deps_map.keys)
    /\ graph' = Filtered(graph_for_sort, DOMAIN all_modules_data)
    /\ pc' = "sort_enter"
    /\ UNCHANGED <<ports, start_packages, queue, processed_packages, all_modules_data,
                   package_deps_map, graph_for_sort, build_pos, in_degree, sort_queue,
                   sorted_nodes, sort_outcome, cycle_nodes, manifest, enqueued,
                   extracted,
                   options_str, options_version, options_returned,
                   options_block, descriptor, first_result, second_result,
                   maven_vars>>

-----------------------------------------------------------------------------
(* main: the outcome, lines 436-472 *)

\* Line 438.
FinalModulesList(modules, names) == [i \in 1..Len(names) |-> modules[names[i]]]

\* Lines 437-438 and 449-472: topological_sort returned; the manifest is
\* written.
main_write_manifest ==
    /\ pc = "sort_exit"
    /\ sort_outcome = "returned"
    /\ manifest' = [written |-> TRUE,
                    modules |-> FinalModulesList(all_modules_data, sorted_nodes)]
    /\ pc' = "done"
    /\ UNCHANGED <<ports, start_packages, queue, processed_packages, all_modules_data,
                   package_deps_map, graph_for_sort, build_pos, graph, in_degree,
                   sort_queue, sorted_nodes, sort_outcome, cycle_nodes, enqueued,
                   extracted,
                   options_str, options_version, options_returned,
                   options_block, descriptor, first_result, second_result,
                   maven_vars>>

\* Lines 440-446: topological_sort raised ValueError; the error is printed and
\* main returns 1.
main_sort_error ==
    /\ pc = "sort_exit"
    /\ sort_outcome \in {"cycle", "unknown"}
    /\ pc' = "failed"
    /\ UNCHANGED <<ports, start_packages, queue, processed_packages, all_modules_data,
                   package_deps_map, graph_for_sort, build_pos, graph, in_degree,
                   sort_queue, sorted_nodes, sort_outcome, cycle_nodes, manifest,
                   enqueued, extracted,
                   options_str, options_version, options_returned,
                   options_block, descriptor, first_result, second_result,
                   maven_vars>>

NoManifest == [written |-> FALSE, modules |-> <<>>]

\* Lines 382-385, for every list of root names the command line can give
\* (nargs='+': one name at least).
Init ==
    /\ pc = "crawl"
    /\ start_packages \in SeqsUpTo(PortNames, MaxRoots) \ {<<>>}
    /\ queue = start_packages
    /\ ports = [n \in PortNames |-> Unread]
    /\ processed_packages = {}
    /\ all_modules_data = <<>>
    /\ package_deps_map = EmptyDict
    /\ graph_for_sort = EmptyDict
    /\ build_pos = 0
    /\ graph = EmptyDict
    /\ in_degree = <<>>
    /\ sort_queue = <<>>
    /\ sorted_nodes = <<>>
    /\ sort_outcome = "none"
    /\ cycle_nodes = {}
    /\ manifest = NoManifest
    /\ enqueued = [n \in PortNames |-> Count(start_packages, n)]
    /\ extracted = [n \in PortNames |-> 0]
    /\ options_str = None
    /\ options_version = None
    /\ options_returned = NotCalled
    /\ options_block = None
    /\ descriptor = None
    /\ first_result = None
    /\ second_result = None
    /\ MavenIdle

Next ==
    \/ main_loop_visited
    \/ main_loop_missing
    \/ main_loop_extract
    \/ main_loop_raise
    \/ main_loop_end
    \/ main_invert_item
    \/ main_filter
    \/ topological_sort_enter
    \/ topological_sort_loop
    \/ topological_sort_exit
    \/ main_write_manifest
    \/ main_sort_error

Spec == Init /\ [][Next]_vars

\* The interpreter runs the program on: a step that can be taken is taken.
FairSpec == Spec /\ WF_vars(Next)

-----------------------------------------------------------------------------
(* topological_sort on its own: every graph over a few nodes, in every key  *)
(* order, each successor a key of the graph.                                *)

MaxNodes == 3
MaxEdges == 3

NodeNames == <<"A", "B", "C", "D", "E", "F">>
Nodes == {NodeNames[i] : i \in 1..MaxNodes}

EdgeCount(g) == Cardinality({e \in Range(g.keys) \X Range(g.keys) : e[2] \in g.val[e[1]]})

SortInputs ==
    {g \in UNION {[keys : {k}, val : [Range(k) -> SUBSET Range(k)]] :
                     k \in InjectiveSeqs(Nodes, MaxNodes)} :
        EdgeCount(g) <= MaxEdges}

InitSort ==
    /\ pc = "sort_enter"
    /\ graph \in SortInputs
    /\ ports = <<>>
    /\ start_packages = <<>>
    /\ queue = <<>>
    /\ processed_packages = {}
    /\ all_modules_data = <<>>
    /\ package_deps_map = EmptyDict
    /\ graph_for_sort = EmptyDict
    /\ build_pos = 0
    /\ in_degree = <<>>
    /\ sort_queue = <<>>
    /\ sorted_nodes = <<>>
    /\ sort_outcome = "none"
    /\ cycle_nodes = {}
    /\ manifest = NoManifest
    /\ enqueued = <<>>
    /\ extracted = <<>>
    /\ options_str = None
    /\ options_version = None
    /\ options_returned = NotCalled
    /\ options_block = None
    /\ descriptor = None
    /\ first_result = None
    /\ second_result = None
    /\ MavenIdle

NextSort == topological_sort_enter \/ topological_sort_loop \/ topological_sort_exit

SpecSort == InitSort /\ [][NextSort]_vars

-----------------------------------------------------------------------------
(* parse_vcpkg_portfile on its own: two calls on every port directory of a  *)
(* pool.                                                                    *)

\* The values a version field of vcpkg.json has in the pool.
VersionFields == {None, "", "1.2.3", "v1.2.3", "V1.2.3", "Vv1.2.3"}

\* vcpkg.json in the pool: missing, unparseable, or parsed with each pair of
\* "version" and "version-string".
MetadataPool ==
    {NoMetadata, Unparseable}
    \cup {Metadata(v, vs) : v \in VersionFields, vs \in {None, "v2.0"}}

\* The vcpkg_download_distfile matches of the pool: none, one with URLS that
\* holds ${VERSION}, one with a release URL of github.com and SHA512, one
\* without URLS.
DistfilePool ==
    {NoDistfile,
     ArchiveContent.distfile,
     [matched |-> TRUE, archive |-> "ARCHIVE",
      urls |-> "https://github.com/owner/repo/releases/download/v${VERSION}/pkg.tar.gz",
      sha512 |-> "ABCDEF0123"],
     ArchiveNoUrlContent.distfile}

\* The *.patch tokens of the pool, as the archive call and as the first
\* PATCHES list of the portfile give them.
PatchPool ==
    {[extract |-> <<>>, github |-> <<>>],
     [extract |-> <<>>, github |-> <<"fix.patch">>],
     [extract |-> <<"fix.patch">>, github |-> <<"fix.patch">>],
     [extract |-> <<"b.patch", "a.patch">>, github |-> <<"b.patch", "a.patch">>],
     [extract |-> <<"a.patch", "b.patch", "a.patch">>, github |-> <<"a.patch", "b.patch", "a.patch">>],
     [extract |-> <<"0002-x.patch">>, github |-> <<"0001-y.patch", "0002-x.patch">>]}

\* What the portfiles of the pool hold about the source and the patches.
SourcePool ==
    {[EmptyContent EXCEPT !.distfile = d, !.github = g,
                          !.extract_no_remove = (d.sha512 # None),
                          !.extract_patches = p.extract, !.github_patches = p.github] :
        d \in DistfilePool, g \in {NoGithub, GithubContent.github}, p \in PatchPool}

\* What the portfiles of the pool hold about dependencies.
FindPool == {<<>>, <<"zlib">>, <<"zlib", "grpc", "zlib">>}
FeaturePool == {<<>>, <<"core", "ssl", "Tools">>}
ToolPool ==
    {<<>>, <<"protoc">>, <<"grpc_cpp_plugin", "protoc">>,
     <<"grpc_cpp_plugin", "grpc_node_plugin">>, <<"zlib", "zlib">>}

\* The directory names of the pool.
ExtractNames == {"zlib", "protobuf", "grpc", "grpc_node_plugin"}

\* The port directories of the pool: every source, option line and vcpkg.json
\* under one name, and every dependency declaration under every name.
Descriptors ==
    {[content |-> [c EXCEPT !.options = o], package_name |-> "zlib", metadata |-> m] :
        c \in SourcePool,
        o \in {None, "-DBUILD_TESTING=OFF", "-DPKG_VERSION=${VERSION}"},
        m \in MetadataPool}
    \cup
    {[content |-> [EmptyContent EXCEPT !.find = f, !.features = e, !.tools = t],
      package_name |-> n, metadata |-> m] :
        f \in FindPool, e \in FeaturePool, t \in ToolPool, n \in ExtractNames,
        m \in {NoMetadata, Metadata("1.2.3", None)}}

\* Line 399: parse_vcpkg_portfile called on the port directory.
parse_vcpkg_portfile_call ==
    /\ pc = "extract_call"
    /\ first_result' = parse_vcpkg_portfile(descriptor.content, descriptor.package_name,
                                            descriptor.metadata)
    /\ pc' = "extract_again"
    /\ UNCHANGED <<ports, start_packages, queue, processed_packages,
                   all_modules_data, package_deps_map, graph_for_sort, build_pos,
                   graph, in_degree, sort_queue, sorted_nodes, sort_outcome,
                   cycle_nodes, manifest, enqueued, extracted,
                   options_str, options_version, options_returned,
                   options_block, descriptor, second_result,
                   maven_vars>>

\* Line 399 in another run: parse_vcpkg_portfile called on the same port
\* directory again.
parse_vcpkg_portfile_again ==
    /\ pc = "extract_again"
    /\ second_result' = parse_vcpkg_portfile(descriptor.content, descriptor.package_name,
                                             descriptor.metadata)
    /\ pc' = "extract_return"
    /\ UNCHANGED <<ports, start_packages, queue, processed_packages,
                   all_modules_data, package_deps_map, graph_for_sort, build_pos,
                   graph, in_degree, sort_queue, sorted_nodes, sort_outcome,
                   cycle_nodes, manifest, enqueued, extracted,
                   options_str, options_version, options_returned,
                   options_block, descriptor, first_result,
                   maven_vars>>

InitExtract ==
    /\ pc = "extract_call"
    /\ descriptor \in Descriptors
    /\ first_result = None
    /\ second_result = None
    /\ ports = <<>>
    /\ start_packages = <<>>
    /\ queue = <<>>
    /\ processed_packages = {}
    /\ all_modules_data = <<>>
    /\ package_deps_map = EmptyDict
    /\ graph_for_sort = EmptyDict
    /\ build_pos = 0
    /\ graph = EmptyDict
    /\ in_degree = <<>>
    /\ sort_queue = <<>>
    /\ sorted_nodes = <<>>
    /\ sort_outcome = "none"
    /\ cycle_nodes = {}
    /\ manifest = NoManifest
    /\ enqueued = <<>>
    /\ extracted = <<>>
    /\ options_str = None
    /\ options_version = None
    /\ options_returned = NotCalled
    /\ options_block = None
    /\ MavenIdle

NextExtract == parse_vcpkg_portfile_call \/ parse_vcpkg_portfile_again

SpecExtract == InitExtract /\ [][NextExtract]_vars

-----------------------------------------------------------------------------
(* main run twice on the same ports directory with the same root names *)

\* The program is started again after a run that wrote its manifest; the
\* ports directory and the command line are those of the first run, whose
\* manifest is kept in first_result.
main_rerun ==
    /\ pc = "done"
    /\ ~first_result.written
    /\ first_result' = manifest
    /\ pc' = "crawl"
    /\ queue' = start_packages
    /\ processed_packages' = {}
    /\ all_modules_data' = <<>>
    /\ package_deps_map' = EmptyDict
    /\ graph_for_sort' = EmptyDict
    /\ build_pos' = 0
    /\ graph' = EmptyDict
    /\ in_degree' = <<>>
    /\ sort_queue' = <<>>
    /\ sorted_nodes' = <<>>
    /\ sort_outcome' = "none"
    /\ cycle_nodes' = {}
    /\ manifest' = NoManifest
    /\ enqueued' = [n \in PortNames |-> Count(start_packages, n)]
    /\ extracted' = [n \in PortNames |-> 0]
    /\ UNCHANGED <<ports, start_packages,
                   options_str, options_version, options_returned,
                   options_block, descriptor, second_result,
                   maven_vars>>

\* Lines 382-385, no manifest of an earlier run being at hand.
InitRerun ==
    /\ pc = "crawl"
    /\ start_packages \in SeqsUpTo(PortNames, MaxRoots) \ {<<>>}
    /\ queue = start_packages
    /\ ports = [n \in PortNames |-> Unread]
    /\ processed_packages = {}
    /\ all_modules_data = <<>>
    /\ package_deps_map = EmptyDict
    /\ graph_for_sort = EmptyDict
    /\ build_pos = 0
    /\ graph = EmptyDict
    /\ in_degree = <<>>
    /\ sort_queue = <<>>
    /\ sorted_nodes = <<>>
    /\ sort_outcome = "none"
    /\ cycle_nodes = {}
    /\ manifest = NoManifest
    /\ enqueued = [n \in PortNames |-> Count(start_packages, n)]
    /\ extracted = [n \in PortNames |-> 0]
    /\ options_str = None
    /\ options_version = None
    /\ options_returned = NotCalled
    /\ options_block = None
    /\ descriptor = None
    /\ first_result = NoManifest
    /\ second_result = None
    /\ MavenIdle

NextRerun == Next \/ main_rerun

SpecRerun == InitRerun /\ [][NextRerun]_vars

\* Runs of main together with the calls of parse_vcpkg_portfile on the pool.
InitAll == Init \/ InitExtract

NextAll == Next \/ NextExtract

SpecAll == InitAll /\ [][NextAll]_vars

-----------------------------------------------------------------------------
(* src/mvn/flatpak-maven-generator.py: calculate_sha256_from_url *)

\* The variables of vcpkg.py other than pc.
vcpkg_vars ==
    <<ports, start_packages, queue, processed_packages, all_modules_data,
      package_deps_map, graph_for_sort, build_pos, graph, in_degree, sort_queue,
      sorted_nodes, sort_outcome, cycle_nodes, manifest, enqueued, extracted,
      options_str, options_version, options_returned, options_block,
      descriptor, first_result, second_result>>

\* vcpkg.py does not run.
VcpkgIdle ==
    /\ ports = <<>>
    /\ start_packages = <<>>
    /\ queue = <<>>
    /\ processed_packages = {}
    /\ all_modules_data = <<>>
    /\ package_deps_map = EmptyDict
    /\ graph_for_sort = EmptyDict
    /\ build_pos = 0
    /\ graph = EmptyDict
    /\ in_degree = <<>>
    /\ sort_queue = <<>>
    /\ sorted_nodes = <<>>
    /\ sort_outcome = "none"
    /\ cycle_nodes = {}
    /\ manifest = NoManifest
    /\ enqueued = <<>>
    /\ extracted = <<>>
    /\ options_str = None
    /\ options_version = None
    /\ options_returned = NotCalled
    /\ options_block = None
    /\ descriptor = None
    /\ first_result = None
    /\ second_result = None

\* Line 14.
DEFAULT_MAVEN_REPO_URL == "https://repo.maven.apache.org/maven2/"

\* construct_maven_url, lines 152-159; classifier None where the caller gives
\* none.
construct_maven_url(base_repo_url, group_id, artifact_id, version, extension, classifier) ==
    RStrip(base_repo_url, "/") \o "/" \o Replace(group_id, ".", "/") \o "/"
        \o artifact_id \o "/" \o version \o "/"
        \o artifact_id \o "-" \o version
        \o (IF Truthy(classifier) THEN "-" \o classifier ELSE "")
        \o "." \o extension

\* Line 167: url.split('/')[-1]
DestFilename(link) ==
    IF ~Contains(link, "/") THEN link
    ELSE LET k == CHOOSE i \in 1..Len(link) :
                     /\ CharAt(link, i) = "/"
                     /\ ~Contains(SubSeq(link, i + 1, Len(link)), "/")
         IN  SubSeq(link, k + 1, Len(link))

\* Line 170.
max_retries == 3

\* How an attempt of lines 172-177 can end: the file is fetched, hashed and
\* deleted; urlretrieve raises HTTPError with code 404 or with another code;
\* another exception is raised, by urlretrieve, read_bytes or unlink.
Responses == {"ok", "http_404", "http_500", "error"}

\* (None, None)
NotDownloaded == [sha256 |-> None, filename |-> None]

\* Lines 180 and 184, 193: the failed attempt is the last one of the call.
GivesUpAtLastOnly(link, response, tried) == tried >= max_retries - 1

\* Lines 180 and 184, 193: the failed attempt is the last one of the call.
GivesUp(link, response, tried) ==
    \/ response = "http_404" /\ ~Contains(link, "pom")
    \/ tried >= max_retries - 1

\* Lines 171-199: one attempt of the loop, "tried" attempts having failed
\* before.  An HTTPError comes before the file is opened; another exception can
\* leave the file behind or not.
calculate_sha256_attempt ==
    /\ pc = "download_attempt"
    /\ attempt < max_retries
    /\ \E response \in Responses, left_behind \in BOOLEAN :
          /\ response # "error" => left_behind = temp_filepath
          /\ attempt' = attempt + 1
          /\ responses' = Append(responses, response)
          /\ IF response = "ok"
             THEN /\ temp_filepath' = FALSE
                  /\ download_result' = [sha256 |-> "sha256 of the file",
                                         filename |-> DestFilename(download_url)]
                  /\ pc' = "download_returned"
             ELSE IF GivesUp(download_url, response, attempt)
                  THEN /\ temp_filepath' = FALSE
                       /\ download_result' = NotDownloaded
                       /\ pc' = "download_returned"
                  ELSE /\ temp_filepath' = left_behind
                       /\ UNCHANGED <<download_result, pc>>
    /\ UNCHANGED <<download_url, generator, maven_repositories, all_gavs, serving,
                   gav_pos, url_pos, flatpak_sources, processed_urls, flatpak_urls,
                   added_urls, sources_file, vcpkg_vars>>

\* The URLs the function is called on: a jar, a POM, a sources jar, and a jar
\* of a group whose name holds "pom".
DownloadUrls ==
    {construct_maven_url(DEFAULT_MAVEN_REPO_URL, "org.example", "lib", "1.0", "jar", None),
     construct_maven_url(DEFAULT_MAVEN_REPO_URL, "org.example", "lib", "1.0", "pom", None),
     construct_maven_url(DEFAULT_MAVEN_REPO_URL, "org.example", "lib", "1.0", "jar", "sources"),
     construct_maven_url("https://repo.example.org/releases", "org.pomelo", "lib", "1.0", "jar", None)}

\* The call of line 336; a file of the name can be in the temporary directory
\* already.
InitDownload ==
    /\ pc = "download_attempt"
    /\ download_url \in DownloadUrls
    /\ temp_filepath \in BOOLEAN
    /\ attempt = 0
    /\ responses = <<>>
    /\ download_result = None
    /\ generator = None
    /\ maven_repositories = <<>>
    /\ all_gavs = <<>>
    /\ serving = {}
    /\ gav_pos = 0
    /\ url_pos = 0
    /\ flatpak_sources = <<>>
    /\ processed_urls = {}
    /\ flatpak_urls = <<>>
    /\ added_urls = {}
    /\ sources_file = None
    /\ VcpkgIdle

NextDownload == calculate_sha256_attempt

SpecDownload == InitDownload /\ [][NextDownload]_vars

\* The interpreter runs the function on: an attempt that can be made is made.
FairSpecDownload == SpecDownload /\ WF_vars(NextDownload)

-----------------------------------------------------------------------------
(* src/mvn/flatpak-maven-generator.py: generate_flatpak_maven_sources_urls;
   src/mvn/flatpak-maven-generator2.py: get_maven_download_urls *)

MaxGavs == 2

\* A tuple of the set parse_dependency_list_output returns.
Gav(group_id, artifact_id, version, classifier, packaging) ==
    [group_id |-> group_id, artifact_id |-> artifact_id, version |-> version,
     classifier |-> classifier, packaging |-> packaging]

\* The dependencies mvn lists: a jar, its sources jar, its javadoc jar, its
\* POM, and the jar of another artifact.
GavPool ==
    {Gav("org.example", "lib", "1.0", None, "jar"),
     Gav("org.example", "lib", "1.0", "sources", "jar"),
     Gav("org.example", "lib", "1.0", "javadoc", "jar"),
     Gav("org.example", "lib", "1.0", None, "pom"),
     Gav("org.example", "app", "2.0", None, "jar")}

\* A repository the pom.xml of the project declares.
CustomRepo == "https://repo.example.org/releases"

\* What parse_pom_for_repositories returns, in the order list(set(...)) gives:
\* the declared URLs and the default one, each without its trailing slash.  In
\* flatpak-maven-generator2.py the declared ones are not read (lines 60-70).
RepositoryLists(script) ==
    LET central == RStrip(DEFAULT_MAVEN_REPO_URL, "/")
    IN  IF script = "flatpak-maven-generator.py"
        THEN {<<central>>, <<RStrip(CustomRepo, "/"), central>>,
              <<central, RStrip(CustomRepo, "/")>>}
        ELSE {<<central>>}

\* The servers that can answer a request of urlopen with 200: Maven Central for
\* the paths of its layout, the declared repository for every path under its
\* URL.
Servers == {DEFAULT_MAVEN_REPO_URL, CustomRepo}

\* urlopen(link) answers 200.
Answers200(link) == \E server \in serving : StartsWith(link, server)

\* Lines 277-297 (generator2: 202-225): potential_urls of a GAV.
PotentialUrls(gav) ==
    LET main_url == construct_maven_url(DEFAULT_MAVEN_REPO_URL, gav.group_id,
                        gav.artifact_id, gav.version, gav.packaging, gav.classifier)
        pom_url == construct_maven_url(DEFAULT_MAVEN_REPO_URL, gav.group_id,
                        gav.artifact_id, gav.version, "pom", None)
        source_url == construct_maven_url(DEFAULT_MAVEN_REPO_URL, gav.group_id,
                        gav.artifact_id, gav.version, "jar", "sources")
        javadoc_url == construct_maven_url(DEFAULT_MAVEN_REPO_URL, gav.group_id,
                        gav.artifact_id, gav.version, "jar", "javadoc")
    IN  <<main_url, pom_url>>
            \o (IF gav.classifier # "sources" THEN <<source_url>> ELSE <<>>)
            \o (IF gav.classifier # "javadoc" THEN <<javadoc_url>> ELSE <<>>)

RECURSIVE FoundInRepos(_, _)
\* Lines 306-316: the URL of the first repository of the list that answers
\* 200, None if none does.
FoundInRepos(link, repos) ==
    IF repos = <<>> THEN None
    ELSE LET current_url == Replace(link, DEFAULT_MAVEN_REPO_URL, Head(repos))
         IN  IF Answers200(current_url) THEN current_url
             ELSE FoundInRepos(link, Tail(repos))

\* Lines 306-329: found_url, None where the artifact is skipped.
FoundUrl(link) ==
    LET found_url == FoundInRepos(link, maven_repositories)
    IN  IF found_url # None THEN found_url
        ELSE IF Answers200(link) THEN link
        ELSE None

\* Position of the loops of lines 276 and 301 after one more URL.
NextPosition ==
    IF url_pos < Len(PotentialUrls(all_gavs[gav_pos]))
    THEN <<gav_pos, url_pos + 1>>
    ELSE <<gav_pos + 1, 1>>

\* Lines 301-348 of flatpak-maven-generator.py: one URL of potential_urls.
\* calculate_sha256_from_url returns a hash or (None, None).
generate_sources_url ==
    /\ pc = "sources_loop"
    /\ gav_pos <= Len(all_gavs)
    /\ LET link == PotentialUrls(all_gavs[gav_pos])[url_pos]
           found_url == FoundUrl(link)
       IN  \E hashed \in BOOLEAN :
              IF link \notin processed_urls /\ found_url # None /\ hashed
              THEN /\ flatpak_sources' = Append(flatpak_sources,
                          [type |-> "archive", url |-> found_url,
                           sha256 |-> "sha256 of the file",
                           dest_filename |-> DestFilename(found_url)])
                   /\ processed_urls' = processed_urls \cup {found_url}
              ELSE /\ ~hashed
                   /\ UNCHANGED <<flatpak_sources, processed_urls>>
    /\ gav_pos' = NextPosition[1]
    /\ url_pos' = NextPosition[2]
    /\ UNCHANGED <<pc, download_url, attempt, temp_filepath, responses,
                   download_result, generator, maven_repositories, all_gavs,
                   serving, flatpak_urls, added_urls, sources_file, vcpkg_vars>>

\* Lines 350-353 of flatpak-maven-generator.py: json.dump(flatpak_sources).
write_sources ==
    /\ pc = "sources_loop"
    /\ gav_pos > Len(all_gavs)
    /\ sources_file' = flatpak_sources
    /\ pc' = "written"
    /\ UNCHANGED <<download_url, attempt, temp_filepath, responses,
                   download_result, generator, maven_repositories, all_gavs,
                   serving, gav_pos, url_pos, flatpak_sources, processed_urls,
                   flatpak_urls, added_urls, vcpkg_vars>>

\* a < b can be evaluated for two fields of GAV tuples: None is ordered with
\* nothing.
Comparable(a, b) == a = b \/ (a # None /\ b # None)

\* The fields of a GAV tuple, in the order of the tuple.
GavFields(gav) ==
    <<gav.group_id, gav.artifact_id, gav.version, gav.classifier, gav.packaging>>

\* The first field two tuples differ in (they differ).
FirstDifference(a, b) ==
    CHOOSE i \in 1..5 : GavFields(a)[i] # GavFields(b)[i]
                        /\ \A j \in 1..(i - 1) : GavFields(a)[j] = GavFields(b)[j]

\* Comparing the tuples raises TypeError.
GavsIncomparable(a, b) ==
    a # b /\ ~Comparable(GavFields(a)[FirstDifference(a, b)],
                         GavFields(b)[FirstDifference(a, b)])

\* a < b for two tuples that can be compared.
GavLess(a, b) ==
    a # b /\ StrLess(GavFields(a)[FirstDifference(a, b)],
                     GavFields(b)[FirstDifference(a, b)])

RECURSIVE SortedGavs(_)
\* sorted(list(all_gavs)), for tuples that can be compared.
SortedGavs(S) ==
    IF S = {} THEN <<>>
    ELSE LET least == CHOOSE x \in S : \A y \in S \ {x} : GavLess(x, y)
         IN  <<least>> \o SortedGavs(S \ {least})

\* Line 202 of flatpak-maven-generator2.py: sorted(list(all_gavs)).  With two
\* tuples at most, sorted compares every pair; a TypeError goes to line 281 and
\* nothing is written.
sort_gavs ==
    /\ pc = "urls_sort"
    /\ IF \E i, j \in 1..Len(all_gavs) : GavsIncomparable(all_gavs[i], all_gavs[j])
       THEN /\ pc' = "failed"
            /\ UNCHANGED all_gavs
       ELSE /\ pc' = "urls_loop"
            /\ all_gavs' = SortedGavs(Range(all_gavs))
    /\ UNCHANGED <<download_url, attempt, temp_filepath, responses,
                   download_result, generator, maven_repositories, serving,
                   gav_pos, url_pos, flatpak_sources, processed_urls,
                   flatpak_urls, added_urls, sources_file, vcpkg_vars>>

\* An entry of flatpak_urls, lines 246-251.
UrlEntry(link, dest_filename) ==
    [type |-> "archive", url |-> link, dest_filename |-> dest_filename]

RECURSIVE WithCandidates(_, _, _)
\* Lines 235-253 of flatpak-maven-generator2.py: flatpak_urls after the loop
\* over the repositories.
WithCandidates(list, base_url, repos) ==
    IF repos = <<>> THEN list
    ELSE LET candidate_url ==
                 Replace(base_url, RStrip(DEFAULT_MAVEN_REPO_URL, "/"), Head(repos))
             added == {list[i].url : i \in 1..Len(list)}
         IN  WithCandidates(
                 IF candidate_url \notin added
                 THEN Append(list, UrlEntry(candidate_url, DestFilename(base_url)))
                 ELSE list,
                 base_url, Tail(repos))

\* Lines 228-263 of flatpak-maven-generator2.py: one URL of
\* potential_urls_for_gav.  added_urls holds the URLs of flatpak_urls.
identify_url ==
    /\ pc = "urls_loop"
    /\ gav_pos <= Len(all_gavs)
    /\ LET base_url == PotentialUrls(all_gavs[gav_pos])[url_pos]
           candidates == WithCandidates(flatpak_urls, base_url, maven_repositories)
           listed == {candidates[i].url : i \in 1..Len(candidates)}
       IN  /\ flatpak_urls' =
                 IF base_url \notin listed \cup added_urls
                 THEN Append(candidates, UrlEntry(base_url, DestFilename(base_url)))
                 ELSE candidates
           /\ added_urls' = added_urls \cup listed \cup {base_url}
    /\ gav_pos' = NextPosition[1]
    /\ url_pos' = NextPosition[2]
    /\ UNCHANGED <<pc, download_url, attempt, temp_filepath, responses,
                   download_result, generator, maven_repositories, all_gavs,
                   serving, flatpak_sources, processed_urls, sources_file,
                   vcpkg_vars>>

\* Lines 266-269 of flatpak-maven-generator2.py: json.dump(flatpak_urls).
write_urls ==
    /\ pc = "urls_loop"
    /\ gav_pos > Len(all_gavs)
    /\ sources_file' = flatpak_urls
    /\ pc' = "written"
    /\ UNCHANGED <<download_url, attempt, temp_filepath, responses,
                   download_result, generator, maven_repositories, all_gavs,
                   serving, gav_pos, url_pos, flatpak_sources, processed_urls,
                   flatpak_urls, added_urls, vcpkg_vars>>

\* One of the scripts starts its loop over a set of GAVs that is not empty;
\* generator2 probes no server.
InitMaven ==
    /\ generator \in {"flatpak-maven-generator.py", "flatpak-maven-generator2.py"}
    /\ pc = IF generator = "flatpak-maven-generator.py"
            THEN "sources_loop" ELSE "urls_sort"
    /\ all_gavs \in InjectiveSeqs(GavPool, MaxGavs) \ {<<>>}
    /\ maven_repositories \in RepositoryLists(generator)
    /\ serving \in IF generator = "flatpak-maven-generator.py"
                   THEN SUBSET Servers ELSE {{}}
    /\ gav_pos = 1
    /\ url_pos = 1
    /\ flatpak_sources = <<>>
    /\ processed_urls = {}
    /\ flatpak_urls = <<>>
    /\ added_urls = {}
    /\ sources_file = None
    /\ download_url = None
    /\ attempt = 0
    /\ temp_filepath = FALSE
    /\ responses = <<>>
    /\ download_result = None
    /\ VcpkgIdle

NextMaven ==
    \/ generate_sources_url
    \/ write_sources
    \/ sort_gavs
    \/ identify_url
    \/ write_urls

SpecMaven == InitMaven /\ [][NextMaven]_vars

-----------------------------------------------------------------------------
(* Graph notions the claims about topological_sort are stated with *)

RECURSIVE Closure(_, _)
\* The nodes of S and everything reachable from them along the edges of g.
Closure(g, S) ==
    LET T == S \cup UNION {g.val[u] : u \in S}
    IN  IF T = S THEN S ELSE Closure(g, T)

\* The nodes reachable from u along one edge or more.
Descendants(g, u) == Closure(g, g.val[u])

OnCycle(g, u) == u \in Descendants(g, u)

IsDAG(g) == \A u \in Range(g.keys) : ~OnCycle(g, u)

\* The nodes on a cycle and the nodes reachable from a cycle.
CycleAndDependents(g) ==
    {n \in Range(g.keys) :
        \E c \in Range(g.keys) : OnCycle(g, c) /\ (n = c \/ n \in Descendants(g, c))}

\* s lists every element of S exactly once.
ListsExactlyOnce(s, S) ==
    /\ Range(s) = S
    /\ Len(s) = Cardinality(S)

\* In s, a stands before b, for every edge a -> b of g.
RespectsEdges(s, g) ==
    \A a \in Range(g.keys) : \A b \in g.val[a] :
        /\ a \in Range(s)
        /\ b \in Range(s)
        /\ IndexOf(s, a) < IndexOf(s, b)

SortEnded == sort_outcome # "none"

\* C1: for every acyclic graph whose successors are all keys, topological_sort
\* returns a list that holds every node exactly once and places a before b
\* for every edge a -> b.
C1_ValidOrder ==
    (SortEnded /\ IsDAG(graph)) =>
        /\ sort_outcome = "returned"
        /\ ListsExactlyOnce(sorted_nodes, Range(graph.keys))
        /\ RespectsEdges(sorted_nodes, graph)

\* A node with two predecessors, sorted.
C1_Witness ==
    /\ sort_outcome = "returned"
    /\ Len(sorted_nodes) = 3
    /\ \E v \in Range(graph.keys) :
          Cardinality({u \in Range(graph.keys) : v \in graph.val[u]}) = 2

CycleABC ==
    [keys |-> <<"A", "B", "C">>,
     val  |-> [n \in {"A", "B", "C"} |->
                 IF n = "A" THEN {"B"} ELSE IF n = "B" THEN {"C"} ELSE {"A"}]]

\* C2: topological_sort raises the cycle error exactly when the graph is not a
\* DAG and returns exactly when it is one; it never ends with the "unknown
\* reason" error; the cycle A -> B -> C -> A is reported with {A, B, C}.
C2_CycleIffNotDAG ==
    SortEnded =>
        /\ (sort_outcome = "cycle") <=> ~IsDAG(graph)
        /\ (sort_outcome = "returned") <=> IsDAG(graph)
        /\ (Range(graph.keys) = {"A", "B", "C"} /\ graph.val = CycleABC.val)
              => (sort_outcome = "cycle" /\ cycle_nodes = {"A", "B", "C"})

\* The cycle A -> B -> C -> A, given in some key order, has been rejected.
C2_Witness ==
    /\ sort_outcome = "cycle"
    /\ Range(graph.keys) = {"A", "B", "C"}
    /\ graph.val = CycleABC.val
    /\ graph.keys # CycleABC.keys

\* C3: the names the cycle error reports are exactly the nodes on a cycle and
\* the nodes reachable from a cycle.
C3_ReportedSet ==
    (sort_outcome = "cycle") => cycle_nodes = CycleAndDependents(graph)

\* A cycle of two, a node that depends on it and is reported with it.
C3_Witness ==
    /\ sort_outcome = "cycle"
    /\ Cardinality(cycle_nodes) = 3
    /\ \E n \in cycle_nodes : ~OnCycle(graph, n)

-----------------------------------------------------------------------------
(* Notions the claims about main are stated with *)

Max(a, b) == IF a >= b THEN a ELSE b

\* The run has ended: main returned or an exception left it.
RunEnded == pc \in {"done", "failed", "crashed"}

\* main has built the graph it passes to topological_sort.
GraphBuilt == pc \in {"sort_enter", "sort_loop", "sort_exit", "done", "failed"}

\* The graph passed to the sorter has the edge u -> v.
HasEdge(u, v) == DictHas(graph, u) /\ v \in graph.val[u]

\* The run has read the port directory of name, found a portfile there and
\* extracted it.
Resolvable(name) ==
    /\ ports[name].state = "present"
    /\ ~Extraction[ports[name], name].raised

\* The dependency names the extractor gives for the port directory of name.
DeclaredDeps(name) ==
    Range(Extraction[ports[name], name].direct_dependencies
          \o Extraction[ports[name], name].host_dependencies)

\* The names of the modules of the manifest, in their order.
ManifestNames == [i \in 1..Len(manifest.modules) |-> manifest.modules[i].name]

C5_EnqueuedOnceEver == \A n \in PortNames : enqueued[n] <= 1

\* C5, amended: a name whose port directory holds a portfile enters the work
\* queue once, or as often as the root list names it if that is more; only a
\* name without a portfile can enter it again later.
C5_EnqueuedOnce ==
    \A n \in PortNames :
        ports[n].state # "absent" =>
            enqueued[n] <= Max(1, Count(start_packages, n))

\* The crawl is over; a name with a portfile that two extracted packages
\* depend on has entered the queue once.
C5_Witness ==
    /\ pc = "invert"
    /\ \E n \in PortNames :
          /\ ports[n].state = "present"
          /\ enqueued[n] = 1
          /\ Cardinality({p \in Range(package_deps_map.keys) :
                             n \in package_deps_map.val[p]}) = 2

\* The ports directory of the scenario: X without dependencies, Y depending
\* on X, Z depending on Y and W, no port directory for W; the roots are [Z].
C6_Scenario ==
    /\ start_packages = <<"Z">>
    /\ Resolvable("X") /\ DeclaredDeps("X") = {}
    /\ Resolvable("Y") /\ DeclaredDeps("Y") = {"X"}
    /\ Resolvable("Z") /\ DeclaredDeps("Z") = {"Y", "W"}
    /\ ports["W"].state = "absent"

\* C6: in the scenario the run writes the manifest with the modules X, Y, Z in
\* this order; the module records are those of X, Y and Z; W is recorded as a
\* dependency of Z and has no module record.
C6_EndToEnd ==
    (C6_Scenario /\ RunEnded) =>
        /\ pc = "done"
        /\ manifest.written
        /\ ManifestNames = <<"X", "Y", "Z">>
        /\ DOMAIN all_modules_data = {"X", "Y", "Z"}
        /\ "W" \in package_deps_map.val["Z"]
        /\ "W" \notin DOMAIN all_modules_data

\* The run of the scenario has ended.
C6_Witness == C6_Scenario /\ RunEnded

\* C7: the graph passed to topological_sort has the edge dep -> pkg exactly
\* when the dependency set recorded for pkg holds dep and dep has a module
\* record; every node of that graph has a module record.
C7_GraphEdges ==
    GraphBuilt =>
        /\ \A dep \in PortNames : \A pkg \in PortNames :
              HasEdge(dep, pkg) <=>
                 /\ DictHas(package_deps_map, pkg)
                 /\ dep \in package_deps_map.val[pkg]
                 /\ dep \in DOMAIN all_modules_data
        /\ \A n \in Range(graph.keys) : n \in DOMAIN all_modules_data

\* The graph is built; a dependency has a module record and an edge, another
\* has no module record.
C7_Witness ==
    /\ pc = "sort_enter"
    /\ \E pkg \in Range(package_deps_map.keys) :
          \E dep, other \in package_deps_map.val[pkg] :
             /\ dep \in DOMAIN all_modules_data
             /\ HasEdge(dep, pkg)
             /\ other \notin DOMAIN all_modules_data

\* C8: every name that has a module record is a node of the graph passed to
\* topological_sort.
C8_EveryModuleIsNode ==
    GraphBuilt => \A n \in DOMAIN all_modules_data : DictHas(graph, n)

\* C9: a run ends with the manifest written, the graph being acyclic, or with
\* the cycle error and no manifest written, and in no other way.
C9_TwoOutcomes ==
    RunEnded =>
        \/ pc = "done" /\ manifest.written /\ IsDAG(graph)
        \/ pc = "failed" /\ sort_outcome = "cycle" /\ ~manifest.written

\* C10: the list _parse_cmake_options returns starts with the three baseline
\* options, in their order.
C10_BaselinePrefix ==
    (options_returned.called /\ ~options_returned.raised) =>
        /\ Len(options_returned.opts) >= 3
        /\ SubSeq(options_returned.opts, 1, 3) = essential_opts

-----------------------------------------------------------------------------
(* Notions the claims about parse_vcpkg_portfile are stated with *)

\* The first call of parse_vcpkg_portfile is over.
Called == pc \in {"extract_again", "extract_return"}

\* The first call returned its triple.
Returned == Called /\ ~first_result.raised

\* The version with one leading "v" or "V" removed, where it has one.
WithoutOnePrefix(version) ==
    IF version # "" /\ CharIn(CharAt(version, 1), "vV")
    THEN SubSeq(version, 2, Len(version))
    ELSE version

\* The sources of the module record the first call returned.
Sources == first_result.module_data.sources

\* The version-control idiom is the one the call takes its source from.
GitIdiomUsed ==
    /\ descriptor.content.github.matched
    /\ ~descriptor.content.distfile.matched

\* C11: where the source comes from the version-control idiom, the call
\* returns, and the tag of the git source is the resolved version without one
\* leading "v" or "V" where it has one, the resolved version itself otherwise.
C11_TagStripsOnePrefix ==
    (Called /\ GitIdiomUsed) =>
        /\ ~first_result.raised
        /\ Sources # <<>>
        /\ Sources[1].type = "git"
        /\ Sources[1].tag = WithoutOnePrefix(ResolveVersion(descriptor.metadata))

\* The version field the resolution takes: "version" where vcpkg.json holds
\* one, "version-string" otherwise.
PreferredField(metadata) ==
    IF Truthy(metadata.version) THEN metadata.version ELSE metadata.version_string

\* C12: whatever the state of vcpkg.json, the resolved version is a string: the
\* preferred version field without one leading "v" or "V" where vcpkg.json
\* parses and holds a field, "UNKNOWN_VERSION" where it is missing or does not
\* parse.
C12_VersionResolved ==
    Called =>
        LET metadata == descriptor.metadata
            resolved == ResolveVersion(metadata)
        IN  /\ resolved # None
            /\ metadata.state # "parsed" => resolved = "UNKNOWN_VERSION"
            /\ (metadata.state = "parsed" /\ Truthy(PreferredField(metadata))) =>
                  resolved = WithoutOnePrefix(PreferredField(metadata))

\* C13: parse_vcpkg_portfile returns the module record and the two dependency
\* lists for every portfile and every state of vcpkg.json; it never raises.
C13_ExtractionReturns ==
    Called =>
        /\ ~first_result.raised
        /\ first_result.module_data.name = descriptor.package_name
        /\ Len(first_result.direct_dependencies) >= 0
        /\ Len(first_result.host_dependencies) >= 0

\* C14: where the vcpkg_download_distfile idiom matches and the call returns,
\* the first source of the module record is an archive source whose URL holds
\* no ${VERSION}.
C14_ArchiveSourceFirst ==
    (Returned /\ descriptor.content.distfile.matched) =>
        /\ Sources # <<>>
        /\ Sources[1].type = "archive"
        /\ ~Contains(Sources[1].url, "${VERSION}")

\* Both calls of parse_vcpkg_portfile are over.
CalledTwice == pc = "extract_return"

PatchSourcesReturned == SelectSeq(Sources, LAMBDA s : s.type = "file")

\* The install commands of the module record the first call returned.
Commands == first_result.module_data.install_commands

\* The install commands that apply a patch, in their order.
PatchCommands == SelectSeq(Commands, LAMBDA c : StartsWith(c, "patch -p1 < "))

\* C16: in a returned module record the commands that apply a patch are, in
\* this order, one for each patch source, and the install command occurs once,
\* as the last command.
C16_InstallCommands ==
    Returned =>
        /\ Len(PatchCommands) = Len(PatchSourcesReturned)
        /\ \A i \in 1..Len(PatchSourcesReturned) :
              "patches/" \o SubSeq(PatchCommands[i], 13, Len(PatchCommands[i]))
                  = PatchSourcesReturned[i].path
        /\ Len(Commands) = Len(PatchCommands) + 1
        /\ Commands[Len(Commands)] = BaseInstallCommand
        /\ \A i \in 1..(Len(Commands) - 1) : Commands[i] # BaseInstallCommand

\* A returned module record with two patch sources, of a portfile that names
\* three patches.
C16_Witness ==
    /\ Returned
    /\ GitIdiomUsed
    /\ Len(descriptor.content.github_patches) = 3
    /\ Len(PatchSourcesReturned) = 2
    /\ Len(Commands) = 3

\* The names of the patch files of the returned file sources.
PatchNamesReturned ==
    [i \in 1..Len(PatchSourcesReturned) |->
        SubSeq(PatchSourcesReturned[i].path, 9, Len(PatchSourcesReturned[i].path))]

\* C17: a returned module record takes its source and patches from the
\* vcpkg_download_distfile idiom where that matches, with no git source even
\* if vcpkg_from_github matches too; from the vcpkg_from_github idiom where
\* only that matches; where neither matches its sources are empty and its
\* install commands are the install command alone.
C17_IdiomPrecedence ==
    Returned =>
        LET content == descriptor.content
        IN  /\ content.distfile.matched =>
                  /\ \A i \in 1..Len(Sources) : Sources[i].type # "git"
                  /\ Truthy(content.distfile.urls) => Sources[1].type = "archive"
                  /\ Range(PatchNamesReturned) = Range(content.extract_patches)
            /\ (~content.distfile.matched /\ content.github.matched) =>
                  /\ Sources[1].type = "git"
                  /\ \A i \in 2..Len(Sources) : Sources[i].type = "file"
                  /\ Range(PatchNamesReturned) = Range(content.github_patches)
            /\ (~content.distfile.matched /\ ~content.github.matched) =>
                  /\ Sources = <<>>
                  /\ Commands = <<BaseInstallCommand>>

\* A returned module record of a portfile in which both idioms match, with
\* different patches.
C17_Witness ==
    /\ Returned
    /\ descriptor.content.distfile.matched
    /\ descriptor.content.github.matched
    /\ Range(descriptor.content.extract_patches) # Range(descriptor.content.github_patches)
    /\ Len(Sources) = 2
    /\ Sources[1].type = "archive"

\* The *.patch names found in the portfile by the idiom the source is taken
\* from, in the order and as often as the portfile holds them.
DiscoveredPatches ==
    IF descriptor.content.distfile.matched THEN descriptor.content.extract_patches
    ELSE IF descriptor.content.github.matched THEN descriptor.content.github_patches
    ELSE <<>>

\* C18: the file sources of a returned module record name each patch found in
\* the portfile once, in the order in which the portfile first names them, and
\* follow the archive or git source.
C18_PatchesInDiscoveryOrder ==
    Returned =>
        /\ PatchNamesReturned = Dedup(DiscoveredPatches)
        /\ \A i, j \in 1..Len(Sources) :
              (Sources[i].type = "file" /\ Sources[j].type # "file") => j < i

-----------------------------------------------------------------------------
(* Notions the claims about _parse_cmake_options are stated with *)

\* The text of an OPTIONS block up to the line that closes the call of
\* vcpkg_cmake_configure, None where there is no block.
BlockText(block) ==
    IF block = None THEN None
    ELSE IF StartsWith(block, ")") THEN ""
    ELSE IF Contains(block, "\n)")
         THEN LET k == CHOOSE i \in 1..Len(block) :
                          /\ StartsWith(SubSeq(block, i, Len(block)), "\n)")
                          /\ \A j \in 1..(i - 1) :
                                ~StartsWith(SubSeq(block, j, Len(block)), "\n)")
              IN  SubSeq(block, 1, k - 1)
         ELSE block

\* The options of the lines of the block that cleaning keeps, in the order of
\* the block, each once.
SurvivingOptions ==
    Dedup(CleanOpts(RawOpts(BlockText(options_block)), options_version))

\* The options of the returned list other than the three baseline options.
ReturnedBlockOptions ==
    SelectSeq(options_returned.opts, LAMBDA o : o \notin Range(essential_opts))

\* C19: the list _parse_cmake_options returns holds no option twice, and the
\* options of the OPTIONS block that cleaning keeps appear in it in the order
\* in which the block first names them.
C19_OptionsInBlockOrder ==
    (options_returned.called /\ ~options_returned.raised /\ options_version # None) =>
        /\ \A i, j \in 1..Len(options_returned.opts) :
              options_returned.opts[i] = options_returned.opts[j] => i = j
        /\ ReturnedBlockOptions
              = SelectSeq(SurvivingOptions, LAMBDA o : o \notin Range(essential_opts))

-----------------------------------------------------------------------------
(* Notions the claims about dependencies are stated with *)

\* No element occurs twice in the list.
NoDuplicates(list) ==
    \A i, j \in 1..Len(list) : list[i] = list[j] => i = j

\* C20: neither dependency list a call of parse_vcpkg_portfile returns holds
\* the name of the port itself or holds a name twice; in every state of a run
\* of main no name is in its own set of package_deps_map, and neither
\* graph_for_sort nor the graph of topological_sort has an edge from a name to
\* itself.
C20_NoSelfEdge ==
    /\ Returned =>
          /\ descriptor.package_name \notin Range(first_result.direct_dependencies)
          /\ descriptor.package_name \notin Range(first_result.host_dependencies)
          /\ NoDuplicates(first_result.direct_dependencies)
          /\ NoDuplicates(first_result.host_dependencies)
    /\ \A n \in Range(package_deps_map.keys) : n \notin package_deps_map.val[n]
    /\ \A n \in Range(graph_for_sort.keys) : n \notin graph_for_sort.val[n]
    /\ \A n \in Range(graph.keys) : n \notin graph.val[n]

\* The port grpc names itself in vcpkg_find_package and copies a tool whose
\* name is mapped to grpc; the call returned other dependencies.
C20_Witness ==
    /\ Returned
    /\ descriptor.package_name = "grpc"
    /\ "grpc" \in Range(descriptor.content.find)
    /\ "grpc_cpp_plugin" \in Range(descriptor.content.tools)
    /\ first_result.direct_dependencies = <<"zlib">>
    /\ first_result.host_dependencies = <<"protobuf">>

\* The host dependency the table of lines 238-241 gives for a tool name: "grpc"
\* for a name that holds "grpc", "protobuf" for one that holds "protoc", the
\* name itself otherwise.
CanonicalTool(tool) ==
    IF Contains(tool, "grpc") THEN "grpc"
    ELSE IF Contains(tool, "protoc") THEN "protobuf"
    ELSE tool

\* C21: the host dependencies a call returns are the canonical names of the
\* tool names of the portfile, without the name of the port itself: a tool name
\* that holds "grpc" or "protoc" is in the list only as "grpc" or "protobuf",
\* also when several tool names match the same entry.
C21_ToolsMapped ==
    Returned =>
        LET tools == descriptor.content.tools
            host  == first_result.host_dependencies
        IN  /\ Range(host) = {CanonicalTool(tools[i]) : i \in 1..Len(tools)}
                                \ {descriptor.package_name}
            /\ \A i \in 1..Len(host) : CanonicalTool(host[i]) = host[i]

-----------------------------------------------------------------------------
(* Notions the claims about runs of main are stated with *)

\* A second run on the same ports directory and root names wrote its manifest.
SecondRunDone == pc = "done" /\ first_result.written

\* C22: two runs of main on the same ports directory with the same root names
\* write the modules in the same order.
C22_SameOrderTwice ==
    SecondRunDone => manifest.modules = first_result.modules

\* The dependency set package_deps_map holds for name, empty where name is no
\* key of it.
RecordedDeps(name) ==
    IF DictHas(package_deps_map, name) THEN package_deps_map.val[name] ELSE {}

\* The step takes a name from the queue and finds no portfile for it.
AbsentDequeued ==
    /\ pc = "crawl"
    /\ queue # <<>>
    /\ Head(queue) \notin processed_packages
    /\ queue' = Tail(queue)
    /\ ports'[Head(queue)].state = "absent"

\* Every name with a module record has all the dependency names the extractor
\* gave for it in package_deps_map.
AllDepsRecorded ==
    \A name \in DOMAIN all_modules_data : DeclaredDeps(name) \subseteq RecordedDeps(name)

\* C23: taking a name without portfile from the queue changes neither
\* all_modules_data nor processed_packages nor package_deps_map, and the
\* dependency set recorded for a name with a module record holds every direct
\* and host dependency of it, resolvable or not.
C23_AbsentSkipped ==
    /\ []AllDepsRecorded
    /\ [][AbsentDequeued =>
             UNCHANGED <<all_modules_data, processed_packages, package_deps_map>>]_vars

\* The crawl is over; a name with a module record has a dependency recorded
\* that was taken from the queue and has no portfile.
C23_Witness ==
    /\ pc = "invert"
    /\ \E name \in DOMAIN all_modules_data :
          \E dep \in RecordedDeps(name) :
             /\ ports[dep].state = "absent"
             /\ dep \notin processed_packages
             /\ dep \notin DOMAIN all_modules_data

\* The crawl loop has ended with its queue empty.
CrawlEnded == pc \in {"invert", "sort_enter", "sort_loop", "sort_exit", "done", "failed"}

RECURSIVE ReachableFrom(_)
\* The names of S and the names reached from them along the dependencies of
\* the names that have a portfile.
ReachableFrom(S) ==
    LET T == S \cup UNION {DeclaredDeps(n) : n \in {m \in S : ports[m].state = "present"}}
    IN  IF T = S THEN S ELSE ReachableFrom(T)

\* C24: when the crawl has ended, the names with a module record are the names
\* that have a portfile and are reached from a root name along dependencies of
\* names that have a portfile; the run has looked for the portfile of every
\* name reached.
C24_ModulesAreReachable ==
    CrawlEnded =>
        LET reached == ReachableFrom(Range(start_packages))
        IN  /\ \A n \in reached : ports[n].state # "unread"
            /\ DOMAIN all_modules_data = {n \in reached : ports[n].state = "present"}

\* The crawl has ended; a name with a module record is reached only through
\* another, a name reached has no portfile, and a port name is not reached.
C24_Witness ==
    /\ pc = "invert"
    /\ LET reached == ReachableFrom(Range(start_packages))
       IN  /\ \E n \in DOMAIN all_modules_data : n \notin Range(start_packages)
           /\ \E n \in reached : ports[n].state = "absent"
           /\ reached # PortNames

\* C25: a run that ends without a cycle error writes a manifest whose modules
\* are the module records of the crawl, each once, and no other.
C25_ManifestIsPermutation ==
    pc = "done" =>
        /\ manifest.written
        /\ ListsExactlyOnce(ManifestNames, DOMAIN all_modules_data)
        /\ \A i \in 1..Len(manifest.modules) :
              manifest.modules[i] = all_modules_data[ManifestNames[i]]

-----------------------------------------------------------------------------
(* Notions the claims about the Maven scripts are stated with *)

\* calculate_sha256_from_url has returned.
DownloadReturned == pc = "download_returned"

\* The attempts of the call so far, the last one left aside, have failed.
FailedBefore == \A i \in 1..(Len(responses) - 1) : responses[i] # "ok"

\* What holds in every state of a call of calculate_sha256_from_url.
DownloadInvariant ==
    /\ attempt <= 3
    /\ attempt = Len(responses)
    /\ FailedBefore
    /\ \A i \in 1..Len(responses) :
          (responses[i] = "http_404" /\ ~Contains(download_url, "pom")) =>
              /\ i = Len(responses)
              /\ DownloadReturned
              /\ download_result = NotDownloaded
    /\ (~DownloadReturned /\ responses # <<>>) => responses[Len(responses)] # "ok"
    /\ DownloadReturned =>
          IF responses[Len(responses)] = "ok"
          THEN download_result = [sha256 |-> "sha256 of the file",
                                  filename |-> DestFilename(download_url)]
          ELSE download_result = NotDownloaded /\ ~temp_filepath

\* C26: calculate_sha256_from_url makes three attempts at most and returns:
\* the hash and the file name at the first attempt that succeeds, (None, None)
\* if none does; HTTP 404 for a URL without "pom" ends the call with
\* (None, None) without another attempt; after a return of (None, None) the
\* temporary file does not exist.
C26_DownloadReturns == []DownloadInvariant /\ <>DownloadReturned

\* The call returned (None, None) for a POM after three failed attempts, the
\* first of them HTTP 404.
C26_Witness ==
    /\ DownloadReturned
    /\ Contains(download_url, ".pom")
    /\ responses = <<"http_404", "error", "http_500">>
    /\ download_result = NotDownloaded


\* One of the Maven scripts has written its list.
ListWritten == pc = "written"

\* C27: the list a Maven script writes never holds two entries with the same
\* URL, whatever the GAVs, the repositories and the repository an artifact is
\* found in.
C27_NoUrlTwice ==
    ListWritten =>
        \A i, j \in 1..Len(sources_file) :
            sources_file[i].url = sources_file[j].url => i = j

=============================================================================
